---- MODULE Spec2Model ----
(***************************************************************************)
(* Verification model of the structured-event observability core of the   *)
(* driver: payload truncation (src/trace.rs), the tracing event emitters   *)
(* (src/trace.rs) and the test subscriber hub (src/test/util/trace.rs).    *)
(*                                                                         *)
(* Strings are sequences of bytes (0..255), as Rust's String is.           *)
(***************************************************************************)
EXTENDS Integers, Sequences, FiniteSets, TLC

(***************************************************************************)
(* Bounds of the model.                                                    *)
(***************************************************************************)
\* longest input string of the truncation specification, in characters
MaxChars == 3
\* budgets range over 0 .. 4 * MaxChars + BudgetSlack (so n > len(s) happens)
BudgetSlack == 2
\* the capacity requested of the broadcast channel; the code asks for 10_000
\* (TracingHandler::new), scaled down here
ChannelCapacity == 3
\* successful sends on the broadcast channel over a run
MaxSends == 5
\* levels guards alive at once
MaxGuards == 2
\* longest timeout of a call, in ticks
MaxTimeout == 2

\* The most entities a test file holds.
MaxFileEntities == 2
\* seconds of the clock of a server selection
MaxClock == 32
\* entries of a document of the emitter specification
MaxDocFields == 2
\* largest configured budget of the emitter specification
MaxEmitBudget == 8

\* trace.rs: DEFAULT_MAX_DOCUMENT_LENGTH_BYTES
DEFAULT_MAX_DOCUMENT_LENGTH_BYTES == 1000

\* ---------------------------------------------------------------------------
\* UTF-8 strings
\* ---------------------------------------------------------------------------

\* Option: None is the empty sequence, Some(x) the sequence of x alone.
None == <<>>
Some(x) == << x >>

\* One character of each UTF-8 width: "a", "e-acute", "euro sign", and the
\* thinking-face emoji used by the tests (F0 9F A4 94).
Chars == { <<97>>, <<195, 169>>, <<226, 130, 172>>, <<240, 159, 164, 148>> }

RECURSIVE StringsOfChars(_)
StringsOfChars(k) ==
    IF k = 0 THEN { <<>> }
    ELSE LET shorter == StringsOfChars(k - 1)
         IN  shorter \cup { t \o c : t \in shorter, c \in Chars }

\* The width of the character a lead byte starts; 0 for a byte that cannot
\* start a character.
CharWidth(b) ==
    IF b < 128 THEN 1
    ELSE IF b >= 192 /\ b < 224 THEN 2
    ELSE IF b >= 224 /\ b < 240 THEN 3
    ELSE IF b >= 240 /\ b < 248 THEN 4
    ELSE 0

IsContinuation(b) == b >= 128 /\ b < 192

\* Validity of a byte string as UTF-8 (structure of lead and continuation
\* bytes), decoded from the front.
RECURSIVE IsValidUtf8(_)
IsValidUtf8(bytes) ==
    IF bytes = <<>> THEN TRUE
    ELSE LET w == CharWidth(bytes[1])
         IN  /\ w > 0
             /\ w <= Len(bytes)
             /\ \A i \in 2..w : IsContinuation(bytes[i])
             /\ IsValidUtf8(SubSeq(bytes, w + 1, Len(bytes)))

\* Mutant: only an ASCII byte, the start and the end of the string count as
\* character boundaries.
is_char_boundary_ascii_only(s, index) ==
    IF index = 0 THEN TRUE
    ELSE IF index >= Len(s) THEN index = Len(s)
    ELSE s[index + 1] < 128

\* str::is_char_boundary: 0 and len are boundaries, an index past the end is
\* not, and an index inside is one iff the byte there is not a continuation
\* byte ((b as i8) >= -0x40).
is_char_boundary(s, index) ==
    IF index = 0 THEN TRUE
    ELSE IF index >= Len(s) THEN index = Len(s)
    ELSE ~IsContinuation(s[index + 1])

\* The while loop of truncate_on_char_boundary: the first index >= from at
\* which is_char_boundary holds.
RECURSIVE truncate_index(_, _)
truncate_index(s, from) ==
    IF is_char_boundary(s, from) THEN from ELSE truncate_index(s, from + 1)

\* A boundary search that rounds down instead of up.
RECURSIVE truncate_index_floor(_, _)
truncate_index_floor(s, from) ==
    IF is_char_boundary(s, from) THEN from ELSE truncate_index_floor(s, from - 1)

\* Mutant: truncates at the closest boundary <= new_len.
truncate_floor(s, new_len) ==
    IF Len(s) > new_len THEN SubSeq(s, 1, truncate_index_floor(s, new_len)) ELSE s

\* Mutant: truncates at new_len whether or not it is a boundary.
truncate_raw(s, new_len) ==
    IF Len(s) > new_len THEN SubSeq(s, 1, new_len) ELSE s

\* truncate_on_char_boundary(s: &mut String, new_len): the value of s after
\* the call.
truncate_on_char_boundary(s, new_len) ==
    IF Len(s) > new_len
    THEN SubSeq(s, 1, truncate_index(s, new_len))
    ELSE s

\* ---------------------------------------------------------------------------
\* Levels, targets and the events handed to the hub
\* ---------------------------------------------------------------------------
COMMAND_TRACING_EVENT_TARGET == "mongodb::command"
CONNECTION_TRACING_EVENT_TARGET == "mongodb::connection"
SDAM_TRACING_EVENT_TARGET == "mongodb::sdam"

Targets ==
    { COMMAND_TRACING_EVENT_TARGET, CONNECTION_TRACING_EVENT_TARGET,
      SDAM_TRACING_EVENT_TARGET }

\* tracing::Level
Levels == { "ERROR", "WARN", "INFO", "DEBUG", "TRACE" }

\* The representation of tracing::Level: TRACE is the smallest discriminant.
LevelInner(l) ==
    CASE l = "TRACE" -> 0
      [] l = "DEBUG" -> 1
      [] l = "INFO"  -> 2
      [] l = "WARN"  -> 3
      [] l = "ERROR" -> 4

\* `a <= b` on tracing::Level: the comparison of the discriminants reversed,
\* so that more verbose levels compare greater.
level_le(a, b) == LevelInner(b) <= LevelInner(a)

\* HashMap::default()
EmptyLevels == [ t \in {} |-> "ERROR" ]

\* Mutant: the comparison of the other revision (metadata.level() >= level).
enabled_inverted(levels_map, target, level) ==
    IF target \in DOMAIN levels_map
    THEN level_le(levels_map[target], level)
    ELSE FALSE

\* Mutant: a target without an entry is let through.
enabled_absent_passes(levels_map, target, level) ==
    IF target \in DOMAIN levels_map
    THEN level_le(level, levels_map[target])
    ELSE TRUE

\* TracingHandler::enabled on the level map read under the lock.
enabled(levels_map, target, level) ==
    IF target \in DOMAIN levels_map
    THEN level_le(level, levels_map[target])
    ELSE FALSE

\* Mutant: record_u64 stores its value as I64.
variant_of_conflated(ty) ==
    CASE ty = "f64"   -> "F64"
      [] ty = "i64"   -> "I64"
      [] ty = "u64"   -> "I64"
      [] ty = "i128"  -> "I128"
      [] ty = "u128"  -> "U128"
      [] ty = "bool"  -> "Bool"
      [] ty = "str"   -> "String"
      [] ty = "debug" -> "String"

\* The value types tracing's Visit interface records, and the variant of
\* TracingEventValue each record_* method stores.
variant_of(ty) ==
    CASE ty = "f64"   -> "F64"
      [] ty = "i64"   -> "I64"
      [] ty = "u64"   -> "U64"
      [] ty = "i128"  -> "I128"
      [] ty = "u128"  -> "U128"
      [] ty = "bool"  -> "Bool"
      [] ty = "str"   -> "String"
      [] ty = "debug" -> "String"

\* One call of a record_* method of TracingEventVisitor: HashMap::insert of
\* the field's name with the value under its variant.
visit_field(fields, f) ==
    [ n \in (DOMAIN fields) \cup { f.name } |->
        IF n = f.name THEN [ variant |-> variant_of(f.ty), val |-> f.val ]
        ELSE fields[n] ]

\* event.record(&mut visitor): the fields visited in order.
RECURSIVE record_fields(_, _)
record_fields(fields, fs) ==
    IF fs = <<>> THEN fields
    ELSE record_fields(visit_field(fields, Head(fs)), Tail(fs))

\* TracingEvent::new(level, target): no fields yet.
TracingEvent_new(level, target) ==
    [ level |-> level, target |-> target, fields |-> [ n \in {} |-> 0 ] ]

\* The record TracingHandler::event builds from a tracing event.
test_event(ev) ==
    LET e == TracingEvent_new(ev.level, ev.target)
    IN  [ e EXCEPT !.fields = record_fields(e.fields, ev.fields) ]

\* TracingEvent::client_id: the client_id field when it is a string, None
\* when the record has none, a panic when it is of another variant.
TracingEvent_client_id(self) ==
    IF "client_id" \in DOMAIN self.fields
    THEN IF self.fields["client_id"].variant = "String"
         THEN [ panicked |-> FALSE, val |-> Some(self.fields["client_id"].val) ]
         ELSE [ panicked |-> TRUE, val |-> None ]
    ELSE [ panicked |-> FALSE, val |-> None ]

\* The tracing events the producers of the hub specification emit: a command
\* event at INFO, whose fields have every value type (request_id and
\* driver_connection_id are both 7, one as i64 and one as u64), a command
\* event at TRACE and a connection event at DEBUG.
HubEvents ==
    { [ target |-> COMMAND_TRACING_EVENT_TARGET, level |-> "INFO",
        fields |-> << [ name |-> "request_id", ty |-> "i64", val |-> 7 ],
                      [ name |-> "driver_connection_id", ty |-> "u64", val |-> 7 ],
                      [ name |-> "duration_ms", ty |-> "u128", val |-> 7 ],
                      [ name |-> "delta", ty |-> "i128", val |-> 7 ],
                      [ name |-> "load", ty |-> "f64", val |-> 7 ],
                      [ name |-> "awaited", ty |-> "bool", val |-> FALSE ],
                      [ name |-> "command_name", ty |-> "str", val |-> "find" ],
                      [ name |-> "message", ty |-> "debug", val |-> "Command succeeded" ] >> ],
      [ target |-> COMMAND_TRACING_EVENT_TARGET, level |-> "TRACE",
        fields |-> << [ name |-> "request_id", ty |-> "i64", val |-> 7 ] >> ],
      [ target |-> CONNECTION_TRACING_EVENT_TARGET, level |-> "DEBUG",
        fields |-> << [ name |-> "message", ty |-> "debug", val |-> "Connection created" ] >> ] }

\* Every target at every level, without fields: the events of the level
\* specification.
AllEvents == [ target : Targets, level : Levels, fields : { <<>> } ]

NoEvent == [ target |-> "", level |-> "", fields |-> <<>> ]

\* The level map the tests install with set_levels (debug_commands_map).
LevelMaps == { [ t \in { COMMAND_TRACING_EVENT_TARGET } |-> "DEBUG" ] }

\* Every level map over the command and connection targets.
AllLevelMaps ==
    UNION { [ D -> Levels ] :
            D \in SUBSET { COMMAND_TRACING_EVENT_TARGET, CONNECTION_TRACING_EVENT_TARGET } }

\* ---------------------------------------------------------------------------
\* The broadcast channel (tokio::sync::broadcast)
\* ---------------------------------------------------------------------------
RECURSIVE next_power_of_two_from(_, _)
next_power_of_two_from(p, n) ==
    IF p >= n THEN p ELSE next_power_of_two_from(2 * p, n)

\* usize::next_power_of_two
next_power_of_two(n) == next_power_of_two_from(1, n)

\* Mutant: a buffer of exactly the requested capacity.
BufferLen_exact == ChannelCapacity

\* The number of slots of the buffer behind broadcast::channel(capacity): the
\* channel rounds the requested capacity up to a power of two.
BufferLen == next_power_of_two(ChannelCapacity)

NoRecord == [ level |-> "", target |-> "", fields |-> [ n \in {} |-> 0 ] ]

Producers == { "p1", "p2" }
Subs == { "s1", "s2" }

\* The filters the tests pass to wait_for_event and collect_events: |_| true,
\* and a comparison of the message field.
Filters == { "any", "Command started" }

filter_matches(f, rec) ==
    IF f = "any" THEN TRUE
    ELSE "message" \in DOMAIN rec.fields /\ rec.fields["message"].val = f

\* ---------------------------------------------------------------------------
\* Canonical extended JSON and the tracing representations
\* ---------------------------------------------------------------------------

\* The thinking-face emoji of the tests, 4 bytes.
Emoji == << 240, 159, 164, 148 >>

\* Keys and values of the documents of the emitter specification: "x" and
\* the emoji as keys; the strings "y" and the emoji and the int32 1 as values.
DocKeys == { << 120 >>, Emoji }
DocValues ==
    { [ type |-> "string", v |-> << 121 >> ],
      [ type |-> "string", v |-> Emoji ],
      [ type |-> "int32", v |-> 1 ] }

\* Documents: up to MaxDocFields entries with distinct keys, in order.
RECURSIVE DocsOfLen(_)
DocsOfLen(k) ==
    IF k = 0 THEN { <<>> }
    ELSE { Append(d, [ key |-> key, value |-> val ]) :
             d \in DocsOfLen(k - 1), key \in DocKeys, val \in DocValues }

HasDistinctKeys(d) == \A i, j \in DOMAIN d : i # j => d[i].key # d[j].key

Docs == { d \in UNION { DocsOfLen(k) : k \in 0 .. MaxDocFields } : HasDistinctKeys(d) }

\* The decimal digits of a natural number, as ASCII bytes.
RECURSIVE Decimal(_)
Decimal(n) == IF n < 10 THEN << 48 + n >> ELSE Decimal(n \div 10) \o << 48 + (n % 10) >>

\* A JSON string literal: the quotation mark and the backslash are escaped,
\* bytes of multi-byte characters are written as they are.
RECURSIVE JsonEscape(_)
JsonEscape(s) ==
    IF s = <<>> THEN <<>>
    ELSE (IF Head(s) = 34 \/ Head(s) = 92 THEN << 92, Head(s) >> ELSE << Head(s) >>)
             \o JsonEscape(Tail(s))

JsonString(s) == << 34 >> \o JsonEscape(s) \o << 34 >>

\* Bson::into_canonical_extjson of a value, printed compactly: a string is a
\* JSON string, an int32 carries its type tag: {"$numberInt":"1"}.
ExtJsonValue(val) ==
    IF val.type = "string" THEN JsonString(val.v)
    ELSE << 123 >> \o JsonString(<< 36, 110, 117, 109, 98, 101, 114, 73, 110, 116 >>)
             \o << 58 >> \o JsonString(Decimal(val.v)) \o << 125 >>

RECURSIVE ExtJsonEntries(_)
ExtJsonEntries(d) ==
    IF d = <<>> THEN <<>>
    ELSE JsonString(d[1].key) \o << 58 >> \o ExtJsonValue(d[1].value)
             \o (IF Len(d) > 1 THEN << 44 >> ELSE <<>>) \o ExtJsonEntries(Tail(d))

\* TracingRepresentation for bson::Document: canonical extended JSON, not
\* truncated.
document_tracing_representation(doc) == << 123 >> \o ExtJsonEntries(doc) \o << 125 >>

HexDigits == << "0", "1", "2", "3", "4", "5", "6", "7", "8", "9", "a", "b", "c", "d", "e", "f" >>

\* TracingRepresentation for ObjectId: to_hex, two lowercase digits a byte.
RECURSIVE oid_tracing_representation(_)
oid_tracing_representation(bytes) ==
    IF bytes = <<>> THEN <<>>
    ELSE << HexDigits[(Head(bytes) \div 16) + 1], HexDigits[(Head(bytes) % 16) + 1] >>
             \o oid_tracing_representation(Tail(bytes))

\* Mutant: the document is not truncated.
serialize_untruncated(doc, max_length_bytes) == document_tracing_representation(doc)

\* serialize_command_or_reply(doc, max_length_bytes)
serialize_command_or_reply(doc, max_length_bytes) ==
    truncate_on_char_boundary(document_tracing_representation(doc), max_length_bytes)

\* A field of a tracing event; an Option that is None records nothing.
field(name, ty, val) == << [ name |-> name, ty |-> ty, val |-> val ] >>
opt_field(name, ty, opt) == IF opt = None THEN <<>> ELSE field(name, ty, opt[1])

\* Mutant: the client_id field is compiled into every build.
tracing_debug_with_id(test_build, target, client_id, fields) ==
    [ target |-> target, level |-> "DEBUG",
      fields |-> opt_field("client_id", "str", client_id) \o fields ]

\* Mutant: the events are published at INFO.
tracing_debug_at_info(test_build, target, client_id, fields) ==
    [ target |-> target, level |-> "INFO",
      fields |-> (IF test_build THEN opt_field("client_id", "str", client_id) ELSE <<>>)
                     \o fields ]

\* tracing_debug!(target: .., client_id: .., fields..): an event at DEBUG; the
\* client_id field is compiled in for tests only.
tracing_debug(test_build, target, client_id, fields) ==
    [ target |-> target, level |-> "DEBUG",
      fields |-> (IF test_build THEN opt_field("client_id", "str", client_id) ELSE <<>>)
                     \o fields ]

\* Mutant: the configured maximum is ignored for the default.
CommandTracingEventEmitter_new_default_only(max_document_length_bytes, client_id) ==
    [ max_document_length_bytes |-> DEFAULT_MAX_DOCUMENT_LENGTH_BYTES,
      client_id |-> client_id ]

\* CommandTracingEventEmitter::new(max_document_length_bytes, client_id)
CommandTracingEventEmitter_new(max_document_length_bytes, client_id) ==
    [ max_document_length_bytes |->
          IF max_document_length_bytes = None THEN DEFAULT_MAX_DOCUMENT_LENGTH_BYTES
          ELSE max_document_length_bytes[1],
      client_id |-> client_id ]

\* The service id of the events: an ObjectId of 12 bytes.
ServiceId == << 0, 1, 2, 3, 4, 5, 6, 7, 8, 9, 171, 255 >>

\* The connection and the service of the events: a connection with a server
\* connection id to an address with a port, behind a load balancer's service,
\* and one with none of the three.
EventEnds ==
    { [ connection |-> [ id |-> 3, server_id |-> Some(12),
                         address |-> [ host |-> "localhost", port |-> Some(27017) ] ],
        service_id |-> Some(ServiceId) ],
      [ connection |-> [ id |-> 3, server_id |-> None,
                         address |-> [ host |-> "localhost", port |-> None ] ],
        service_id |-> None ] }

\* handle_command_started_event
handle_command_started_event(test_build, self, event) ==
    tracing_debug(test_build, COMMAND_TRACING_EVENT_TARGET, self.client_id,
        field("command", "str",
              serialize_command_or_reply(event.doc, self.max_document_length_bytes))
        \o field("database_name", "str", event.db)
        \o field("command_name", "str", event.command_name)
        \o field("request_id", "i64", event.request_id)
        \o field("driver_connection_id", "u64", event.connection.id)
        \o opt_field("server_connection_id", "i64", event.connection.server_id)
        \o field("server_host", "str", event.connection.address.host)
        \o opt_field("server_port", "u64", event.connection.address.port)
        \o opt_field("service_id", "str",
              IF event.service_id = None THEN None
              ELSE Some(oid_tracing_representation(event.service_id[1])))
        \o field("message", "debug", "Command started"))

\* Mutant: the record of a succeeded command names the database.
handle_command_succeeded_event_with_database(test_build, self, event) ==
    tracing_debug(test_build, COMMAND_TRACING_EVENT_TARGET, self.client_id,
        field("reply", "str",
              serialize_command_or_reply(event.doc, self.max_document_length_bytes))
        \o field("database_name", "str", event.db)
        \o field("command_name", "str", event.command_name)
        \o field("request_id", "i64", event.request_id)
        \o field("driver_connection_id", "u64", event.connection.id)
        \o opt_field("server_connection_id", "i64", event.connection.server_id)
        \o field("server_host", "str", event.connection.address.host)
        \o opt_field("server_port", "u64", event.connection.address.port)
        \o opt_field("service_id", "str",
              IF event.service_id = None THEN None
              ELSE Some(oid_tracing_representation(event.service_id[1])))
        \o field("duration_ms", "u128", event.duration_ms)
        \o field("message", "debug", "Command succeeded"))

\* handle_command_succeeded_event
handle_command_succeeded_event(test_build, self, event) ==
    tracing_debug(test_build, COMMAND_TRACING_EVENT_TARGET, self.client_id,
        field("reply", "str",
              serialize_command_or_reply(event.doc, self.max_document_length_bytes))
        \o field("command_name", "str", event.command_name)
        \o field("request_id", "i64", event.request_id)
        \o field("driver_connection_id", "u64", event.connection.id)
        \o opt_field("server_connection_id", "i64", event.connection.server_id)
        \o field("server_host", "str", event.connection.address.host)
        \o opt_field("server_port", "u64", event.connection.address.port)
        \o opt_field("service_id", "str",
              IF event.service_id = None THEN None
              ELSE Some(oid_tracing_representation(event.service_id[1])))
        \o field("duration_ms", "u128", event.duration_ms)
        \o field("message", "debug", "Command succeeded"))

\* impl TracingRepresentation for crate::error::Error: what Display writes
\* for the error.
error_tracing_representation(error) == error.display

\* Mutant: the failure of every error is published.
handle_command_failed_event_unredacted(test_build, self, event) ==
    tracing_debug(test_build, COMMAND_TRACING_EVENT_TARGET, self.client_id,
        field("failure", "str", error_tracing_representation(event.failure))
        \o field("command_name", "str", event.command_name)
        \o field("request_id", "i64", event.request_id)
        \o field("driver_connection_id", "u64", event.connection.id)
        \o opt_field("server_connection_id", "i64", event.connection.server_id)
        \o field("server_host", "str", event.connection.address.host)
        \o opt_field("server_port", "u64", event.connection.address.port)
        \o opt_field("service_id", "str",
              IF event.service_id = None THEN None
              ELSE Some(oid_tracing_representation(event.service_id[1])))
        \o field("duration_ms", "u128", event.duration_ms)
        \o field("message", "debug", "Command failed"))

\* handle_command_failed_event
handle_command_failed_event(test_build, self, event) ==
    LET failure == IF event.failure.kind = "Redacted"
                   THEN None
                   ELSE Some(error_tracing_representation(event.failure))
    IN  tracing_debug(test_build, COMMAND_TRACING_EVENT_TARGET, self.client_id,
            opt_field("failure", "str", failure)
            \o field("command_name", "str", event.command_name)
            \o field("request_id", "i64", event.request_id)
            \o field("driver_connection_id", "u64", event.connection.id)
            \o opt_field("server_connection_id", "i64", event.connection.server_id)
            \o field("server_host", "str", event.connection.address.host)
            \o opt_field("server_port", "u64", event.connection.address.port)
            \o opt_field("service_id", "str",
                  IF event.service_id = None THEN None
                  ELSE Some(oid_tracing_representation(event.service_id[1])))
            \o field("duration_ms", "u128", event.duration_ms)
            \o field("message", "debug", "Command failed"))

\* handle_server_heartbeat_succeeded_event
handle_server_heartbeat_succeeded_event(test_build, self, event) ==
    tracing_debug(test_build, SDAM_TRACING_EVENT_TARGET, self.client_id,
        field("server_host", "str", event.server_address.host)
        \o opt_field("server_port", "u64", event.server_address.port)
        \o field("duration_ms", "u128", event.duration_ms)
        \o field("reply", "str",
              serialize_command_or_reply(event.doc, self.max_document_length_bytes))
        \o field("awaited", "bool", FALSE))

\* ConnectionTracingEventEmitter::new(client_id)
ConnectionTracingEventEmitter_new(client_id) == [ client_id |-> client_id ]

\* Mutant: the reason of every closed connection is rendered as Stale.
closed_reason_conflated(reason) ==
    "Connection became stale because the pool was cleared"

\* impl TracingRepresentation for ConnectionClosedReason
closed_reason_tracing_representation(reason) ==
    CASE reason = "Stale" -> "Connection became stale because the pool was cleared"
      [] reason = "Idle" ->
           "Connection has been available but unused for longer than the configured max idle time"
      [] reason = "Error" -> "An error occurred while using the connection"
      [] reason = "Dropped" -> "Connection was dropped during an operation"
      [] reason = "PoolClosed" -> "Connection pool was closed"

\* impl TracingRepresentation for ConnectionCheckoutFailedReason
checkout_failed_reason_tracing_representation(reason) ==
    CASE reason = "Timeout" ->
           "Wait queue timeout elapsed without a connection becoming available"
      [] reason = "ConnectionError" ->
           "An error occurred while trying to establish a connection"

\* The two fields every connection record starts with.
server_fields(address) ==
    field("server_host", "str", address.host) \o opt_field("server_port", "u64", address.port)

\* handle_pool_created_event
handle_pool_created_event(test_build, self, event) ==
    tracing_debug(test_build, CONNECTION_TRACING_EVENT_TARGET, self.client_id,
        server_fields(event.address)
        \o opt_field("max_idle_time_ms", "u128",
              IF event.options = None THEN None ELSE event.options[1].max_idle_time)
        \o opt_field("max_pool_size", "u64",
              IF event.options = None THEN None ELSE event.options[1].max_pool_size)
        \o opt_field("min_pool_size", "u64",
              IF event.options = None THEN None ELSE event.options[1].min_pool_size)
        \o field("message", "debug", "Connection pool created"))

\* handle_pool_ready_event
handle_pool_ready_event(test_build, self, event) ==
    tracing_debug(test_build, CONNECTION_TRACING_EVENT_TARGET, self.client_id,
        server_fields(event.address)
        \o field("message", "debug", "Connection pool ready"))

\* handle_pool_cleared_event
handle_pool_cleared_event(test_build, self, event) ==
    tracing_debug(test_build, CONNECTION_TRACING_EVENT_TARGET, self.client_id,
        server_fields(event.address)
        \o opt_field("service_id", "str",
              IF event.service_id = None THEN None
              ELSE Some(oid_tracing_representation(event.service_id[1])))
        \o field("message", "debug", "Connection pool cleared"))

\* handle_pool_closed_event
handle_pool_closed_event(test_build, self, event) ==
    tracing_debug(test_build, CONNECTION_TRACING_EVENT_TARGET, self.client_id,
        server_fields(event.address)
        \o field("message", "debug", "Connection pool closed"))

\* handle_connection_created_event
handle_connection_created_event(test_build, self, event) ==
    tracing_debug(test_build, CONNECTION_TRACING_EVENT_TARGET, self.client_id,
        server_fields(event.address)
        \o field("driver_connection_id", "u64", event.connection_id)
        \o field("message", "debug", "Connection created"))

\* handle_connection_ready_event
handle_connection_ready_event(test_build, self, event) ==
    tracing_debug(test_build, CONNECTION_TRACING_EVENT_TARGET, self.client_id,
        server_fields(event.address)
        \o field("driver_connection_id", "u64", event.connection_id)
        \o field("message", "debug", "Connection ready"))

\* handle_connection_closed_event
handle_connection_closed_event(test_build, self, event) ==
    tracing_debug(test_build, CONNECTION_TRACING_EVENT_TARGET, self.client_id,
        server_fields(event.address)
        \o field("driver_connection_id", "u64", event.connection_id)
        \o field("reason", "str", closed_reason_tracing_representation(event.reason))
        \o field("message", "debug", "Connection closed"))

\* handle_connection_checkout_started_event
handle_connection_checkout_started_event(test_build, self, event) ==
    tracing_debug(test_build, CONNECTION_TRACING_EVENT_TARGET, self.client_id,
        server_fields(event.address)
        \o field("message", "debug", "Connection checkout started"))

\* handle_connection_checkout_failed_event
handle_connection_checkout_failed_event(test_build, self, event) ==
    tracing_debug(test_build, CONNECTION_TRACING_EVENT_TARGET, self.client_id,
        server_fields(event.address)
        \o field("reason", "str", checkout_failed_reason_tracing_representation(event.reason))
        \o field("message", "debug", "Connection checkout failed"))

\* handle_connection_checked_out_event
handle_connection_checked_out_event(test_build, self, event) ==
    tracing_debug(test_build, CONNECTION_TRACING_EVENT_TARGET, self.client_id,
        server_fields(event.address)
        \o field("driver_connection_id", "u64", event.connection_id)
        \o field("message", "debug", "Connection checked out"))

\* handle_connection_checked_in_event
handle_connection_checked_in_event(test_build, self, event) ==
    tracing_debug(test_build, CONNECTION_TRACING_EVENT_TARGET, self.client_id,
        server_fields(event.address)
        \o field("driver_connection_id", "u64", event.connection_id)
        \o field("message", "debug", "Connection checked in"))

\* Mutant: a description that cannot be serialized is published as an empty
\* string.
description_tracing_representation_blank(kind, description) ==
    IF description.to_bson.ok
    THEN document_tracing_representation(description.to_bson.doc)
    ELSE ""

\* impl TracingRepresentation for ServerInfo and for TopologyDescription
\* (kind is "server description" and "topology description"): the canonical
\* extended JSON of bson::to_bson(&self), or the fallback with the error.
description_tracing_representation(kind, description) ==
    IF description.to_bson.ok
    THEN document_tracing_representation(description.to_bson.doc)
    ELSE "Failed to serialize " \o kind \o ": " \o description.to_bson.err

\* handle_server_description_changed_event
handle_server_description_changed_event(test_build, self, event) ==
    tracing_debug(test_build, SDAM_TRACING_EVENT_TARGET, self.client_id,
        server_fields(event.address)
        \o field("topology_id", "str", oid_tracing_representation(event.topology_id))
        \o field("previous_description", "str",
              description_tracing_representation("server description",
                                                 event.previous_description))
        \o field("new_description", "str",
              description_tracing_representation("server description", event.new_description)))

\* handle_server_opening_event
handle_server_opening_event(test_build, self, event) ==
    tracing_debug(test_build, SDAM_TRACING_EVENT_TARGET, self.client_id,
        server_fields(event.address)
        \o field("topology_id", "str", oid_tracing_representation(event.topology_id)))

\* handle_server_closed_event
handle_server_closed_event(test_build, self, event) ==
    tracing_debug(test_build, SDAM_TRACING_EVENT_TARGET, self.client_id,
        server_fields(event.address)
        \o field("topology_id", "str", oid_tracing_representation(event.topology_id)))

\* handle_topology_description_changed_event
handle_topology_description_changed_event(test_build, self, event) ==
    tracing_debug(test_build, SDAM_TRACING_EVENT_TARGET, self.client_id,
        field("topology_id", "str", oid_tracing_representation(event.topology_id))
        \o field("previous_description", "str",
              description_tracing_representation("topology description",
                                                 event.previous_description))
        \o field("new_description", "str",
              description_tracing_representation("topology description",
                                                 event.new_description)))

\* handle_topology_opening_event
handle_topology_opening_event(test_build, self, event) ==
    tracing_debug(test_build, SDAM_TRACING_EVENT_TARGET, self.client_id,
        field("topology_id", "str", oid_tracing_representation(event.topology_id)))

\* handle_topology_closed_event
handle_topology_closed_event(test_build, self, event) ==
    tracing_debug(test_build, SDAM_TRACING_EVENT_TARGET, self.client_id,
        field("topology_id", "str", oid_tracing_representation(event.topology_id)))

\* handle_server_heartbeat_started_event
handle_server_heartbeat_started_event(test_build, self, event) ==
    tracing_debug(test_build, SDAM_TRACING_EVENT_TARGET, self.client_id,
        server_fields(event.server_address)
        \o field("awaited", "bool", FALSE))

\* handle_server_heartbeat_failed_event
handle_server_heartbeat_failed_event(test_build, self, event) ==
    tracing_debug(test_build, SDAM_TRACING_EVENT_TARGET, self.client_id,
        server_fields(event.server_address)
        \o field("duration_ms", "u128", event.duration_ms)
        \o field("awaited", "bool", FALSE))

\* ---------------------------------------------------------------------------
\* State
\* ---------------------------------------------------------------------------
VARIABLES
    t_orig,     \* truncation: the string before the call
    t_s,        \* truncation: the string s (modified in place)
    t_new_len,  \* truncation: the budget new_len
    t_pc,       \* truncation: "ready" before the call, "done" after it
    levels,     \* hub: the per-target level map (behind the RwLock)
    guards,     \* hub: the number of live TracingLevelsGuards
    set_levels_call, \* history: the map before the last set_levels and its argument
    ch_pos,     \* channel: position of the next record sent (tail.pos)
    ch_rx_cnt,  \* channel: number of receivers (tail.rx_cnt)
    ch_buffer,  \* channel: the slots, each with the position and value it holds
    prod,       \* per producer: where it is in emitting an event
    sub,        \* per subscriber: its receiver's cursor and its call's state
    sent,       \* history: the records of the successful sends, in order
    received,   \* history: per subscriber, the records recv returned, in order
    e_test_build, \* emitters: whether the build is a test build (cfg(test))
    e_cmd,      \* emitters: the CommandTracingEventEmitter
    e_conn,     \* emitters: the ConnectionTracingEventEmitter
    e_sdam,     \* emitters: the SdamTracingEventEmitter
    e_in,       \* emitters: the kind and the document of the event handled
    e_out,      \* emitters: the tracing event published for it
    e_pc,       \* emitters: "ready" before the event is handled, "emitted" after
    f_file,     \* level merge: the test file
    f_out,      \* level merge: the map returned for it
    f_pc,       \* level merge: "ready" before the call, "done" after it
    d_default,  \* default sink: the sink that events are dispatched to
    d_guard,    \* default sink: the live guard of the hub's installation, if any
    d_elsewhere, \* history: the number of events dispatched to another sink
    span_call,  \* history: the last span operation called on the hub and what it returned
    co, \* connection pool: per caller of check_out, where the call is and what it has emitted
    ss, \* server selection: the call of select_server, its reads of the clock and the time since it began
    ch_tx_cnt  \* channel: number of senders, the hub's own (shared.num_tx)

truncVars == << t_orig, t_s, t_new_len, t_pc >>

hubVars == << levels, guards, set_levels_call, ch_pos, ch_rx_cnt, ch_buffer, prod, sub, sent, received >>

emitterVars == << e_test_build, e_cmd, e_conn, e_sdam >>

emitVars == << emitterVars, e_in, e_out, e_pc >>

fileVars == << f_file, f_out, f_pc >>

sinkVars == << d_default, d_guard, d_elsewhere >>

spanVars == << span_call >>

poolVars == << co >>

selectVars == << ss >>

senderVars == << ch_tx_cnt >>

vars == << truncVars, hubVars, emitVars, fileVars, sinkVars, spanVars, poolVars, selectVars, senderVars >>

\* ---------------------------------------------------------------------------
\* The test subscriber hub (TracingHandler), its producers and subscribers
\* ---------------------------------------------------------------------------
IdleProducer == [ pc |-> "idle", ev |-> NoEvent ]

\* What a call of a subscriber has returned: nothing yet, the
\* Option<TracingEvent> of wait_for_event or the Vec<TracingEvent> of
\* collect_events.
NoReturn == [ kind |-> "", val |-> <<>> ]

NewSubscriber ==
    [ pc |-> "none", next |-> 0, start |-> 0, filter |-> "", collecting |-> FALSE,
      missed |-> 0, timeout |-> 0, elapsed |-> 0, call_start |-> 0, events |-> <<>>,
      ret |-> NoReturn ]

\* No call of set_levels yet.
NoSetLevels == [ before |-> EmptyLevels, new_levels |-> EmptyLevels ]

\* Mutant: a hub that is constructed with the levels of debug_commands_map.
TracingHandler_new_with_levels ==
    /\ levels = [ t \in { COMMAND_TRACING_EVENT_TARGET } |-> "DEBUG" ]
    /\ guards = 0
    /\ set_levels_call = NoSetLevels
    /\ ch_pos = 0
    /\ ch_rx_cnt = 0
    /\ ch_buffer = [ i \in 0 .. (BufferLen - 1) |-> [ pos |-> i - BufferLen, val |-> NoRecord ] ]
    /\ prod = [ p \in Producers |-> IdleProducer ]
    /\ sub = [ s \in Subs |-> NewSubscriber ]
    /\ sent = <<>>
    /\ received = [ s \in Subs |-> <<>> ]

\* TracingHandler::new(): an empty level map and a channel whose only
\* receiver is dropped at once.
HubInit ==
    /\ levels = EmptyLevels
    /\ guards = 0
    /\ set_levels_call = NoSetLevels
    /\ ch_pos = 0
    /\ ch_rx_cnt = 0
    /\ ch_buffer = [ i \in 0 .. (BufferLen - 1) |-> [ pos |-> i - BufferLen, val |-> NoRecord ] ]
    /\ prod = [ p \in Producers |-> IdleProducer ]
    /\ sub = [ s \in Subs |-> NewSubscriber ]
    /\ sent = <<>>
    /\ received = [ s \in Subs |-> <<>> ]

\* Mutant: the new levels are merged into the map.
set_levels_merges(new_levels) ==
    /\ guards < MaxGuards
    /\ levels' = [ t \in (DOMAIN levels) \cup (DOMAIN new_levels) |->
                     IF t \in DOMAIN new_levels THEN new_levels[t] ELSE levels[t] ]
    /\ guards' = guards + 1
    /\ set_levels_call' = [ before |-> levels, new_levels |-> new_levels ]
    /\ UNCHANGED << ch_pos, ch_rx_cnt, ch_buffer, prod, sub, sent, received, truncVars, emitVars, fileVars, sinkVars, spanVars, poolVars, selectVars, senderVars >>

\* TracingHandler::set_levels(new_levels): the map is replaced under the
\* write lock and a guard is returned.
set_levels(new_levels) ==
    /\ guards < MaxGuards
    /\ levels' = new_levels
    /\ guards' = guards + 1
    /\ set_levels_call' = [ before |-> levels, new_levels |-> new_levels ]
    /\ UNCHANGED << ch_pos, ch_rx_cnt, ch_buffer, prod, sub, sent, received, truncVars, emitVars, fileVars, sinkVars, spanVars, poolVars, selectVars, senderVars >>

\* Mutant: a guard that is released leaves the map as it is.
TracingLevelsGuard_drop_keeps ==
    /\ guards > 0
    /\ guards' = guards - 1
    /\ UNCHANGED << levels, set_levels_call, ch_pos, ch_rx_cnt, ch_buffer, prod, sub, sent,
                    received, truncVars, emitVars, fileVars, sinkVars, spanVars, poolVars, selectVars, senderVars >>

\* Mutant: the map is cleared only by the release of the last guard alive.
TracingLevelsGuard_drop_last_only ==
    /\ guards > 0
    /\ levels' = IF guards = 1 THEN EmptyLevels ELSE levels
    /\ guards' = guards - 1
    /\ UNCHANGED << set_levels_call, ch_pos, ch_rx_cnt, ch_buffer, prod, sub, sent, received,
                    truncVars, emitVars, fileVars, sinkVars, spanVars, poolVars, selectVars, senderVars >>

\* Drop for TracingLevelsGuard: the map is cleared.
TracingLevelsGuard_drop ==
    /\ guards > 0
    /\ levels' = EmptyLevels
    /\ guards' = guards - 1
    /\ UNCHANGED << set_levels_call, ch_pos, ch_rx_cnt, ch_buffer, prod, sub, sent, received, truncVars, emitVars, fileVars, sinkVars, spanVars, poolVars, selectVars, senderVars >>

\* tracing::event! on a producer's task, first half: the facade asks the
\* hub's enabled(metadata) and goes on to event() only when it says yes.
emit_enabled(p, ev) ==
    /\ prod[p].pc = "idle"
    /\ ch_pos < MaxSends
    /\ prod' = [ prod EXCEPT ![p] =
                   [ pc |-> IF enabled(levels, ev.target, ev.level)
                            THEN "enabled" ELSE "rejected",
                     ev |-> ev ] ]
    /\ UNCHANGED << levels, guards, set_levels_call, ch_pos, ch_rx_cnt, ch_buffer, sub, sent, received,
                    truncVars, emitVars, fileVars, sinkVars, spanVars, poolVars, selectVars, senderVars >>

\* tracing::event! for an event the hub rejected: nothing is visited or
\* sent.
emit_dropped(p) ==
    /\ prod[p].pc = "rejected"
    /\ prod' = [ prod EXCEPT ![p] = IdleProducer ]
    /\ UNCHANGED << levels, guards, set_levels_call, ch_pos, ch_rx_cnt, ch_buffer, sub, sent, received,
                    truncVars, emitVars, fileVars, sinkVars, spanVars, poolVars, selectVars, senderVars >>

\* Mutant: a record sent while no receiver exists is stored all the same.
emit_event_keeps(p) ==
    /\ prod[p].pc = "enabled"
    /\ ch_pos < MaxSends
    /\ LET rec == test_event(prod[p].ev)
       IN  /\ ch_buffer' = [ ch_buffer EXCEPT ![ch_pos % BufferLen] =
                                [ pos |-> ch_pos, val |-> rec ] ]
           /\ ch_pos' = ch_pos + 1
           /\ sent' = Append(sent, rec)
    /\ prod' = [ prod EXCEPT ![p] = IdleProducer ]
    /\ UNCHANGED << levels, guards, set_levels_call, ch_rx_cnt, sub, received, truncVars, emitVars, fileVars, sinkVars, spanVars, poolVars, selectVars, senderVars >>

\* tracing::event!, second half: TracingHandler::event builds the record and
\* sends it; Sender::send fails, and stores nothing, when no receiver exists.
emit_event(p) ==
    /\ prod[p].pc = "enabled"
    /\ ch_pos < MaxSends
    /\ LET rec == test_event(prod[p].ev)
       IN  IF ch_rx_cnt = 0
           THEN UNCHANGED << ch_pos, ch_buffer, sent >>
           ELSE /\ ch_buffer' = [ ch_buffer EXCEPT ![ch_pos % BufferLen] =
                                    [ pos |-> ch_pos, val |-> rec ] ]
                /\ ch_pos' = ch_pos + 1
                /\ sent' = Append(sent, rec)
    /\ prod' = [ prod EXCEPT ![p] = IdleProducer ]
    /\ UNCHANGED << levels, guards, set_levels_call, ch_rx_cnt, sub, received, truncVars, emitVars, fileVars, sinkVars, spanVars, poolVars, selectVars, senderVars >>

\* Mutant: a new receiver starts at the oldest record the buffer holds.
new_receiver_next_oldest == IF ch_pos > BufferLen THEN ch_pos - BufferLen ELSE 0

\* Sender::subscribe: the cursor of a new receiver is the channel's tail.
new_receiver_next == ch_pos

\* TracingHandler::subscribe: a subscriber with a new receiver.
subscribe(s) ==
    /\ sub[s].pc = "none"
    /\ sub' = [ sub EXCEPT ![s].pc = "idle", ![s].next = new_receiver_next,
                           ![s].start = ch_pos ]
    /\ ch_rx_cnt' = ch_rx_cnt + 1
    /\ UNCHANGED << levels, guards, set_levels_call, ch_pos, ch_buffer, prod, sent, received, truncVars, emitVars, fileVars, sinkVars, spanVars, poolVars, selectVars, senderVars >>

\* A call of TracingSubscriber::wait_for_event(timeout, filter): the timeout
\* starts to run.
wait_for_event_call(s, timeout, f) ==
    /\ sub[s].pc = "idle"
    /\ sub' = [ sub EXCEPT ![s].pc = "waiting", ![s].filter = f, ![s].timeout = timeout,
                           ![s].elapsed = 0, ![s].call_start = sub[s].next,
                           ![s].ret = NoReturn ]
    /\ UNCHANGED << levels, guards, set_levels_call, ch_pos, ch_rx_cnt, ch_buffer, prod, sent, received,
                    truncVars, emitVars, fileVars, sinkVars, spanVars, poolVars, selectVars, senderVars >>

\* A call of TracingSubscriber::collect_events(timeout, filter): an empty
\* vector, and its loop starts with a call of wait_for_event.
collect_events_call(s, timeout, f) ==
    /\ sub[s].pc = "idle"
    /\ sub' = [ sub EXCEPT ![s].pc = "waiting", ![s].filter = f, ![s].collecting = TRUE,
                           ![s].timeout = timeout, ![s].elapsed = 0,
                           ![s].call_start = sub[s].next, ![s].events = <<>>,
                           ![s].ret = NoReturn ]
    /\ UNCHANGED << levels, guards, set_levels_call, ch_pos, ch_rx_cnt, ch_buffer, prod, sent, received,
                    truncVars, emitVars, fileVars, sinkVars, spanVars, poolVars, selectVars, senderVars >>

\* Mutant: the cursor is not advanced past a record read.
recv_ref_no_advance(next) ==
    LET slot == ch_buffer[next % BufferLen]
    IN  IF slot.pos = next
        THEN [ kind |-> "ok", pos |-> slot.pos, value |-> slot.val, missed |-> 0,
               next |-> next ]
        ELSE IF slot.pos + BufferLen = next
        THEN [ kind |-> "empty", pos |-> next, value |-> NoRecord, missed |-> 0,
               next |-> next ]
        ELSE [ kind |-> "lagged", pos |-> next, value |-> NoRecord,
               missed |-> (ch_pos - BufferLen) - next, next |-> ch_pos - BufferLen ]

\* Receiver::recv for a receiver whose cursor is next: the slot of the cursor
\* holds the record of that position (Ok, and the cursor advances), or the
\* record one lap older (the channel is empty for this receiver, and closed
\* when no sender is left), or a newer one: the receiver lagged, is moved to
\* the oldest record the buffer holds and is told how many records it
\* skipped.
recv_ref(next) ==
    LET slot == ch_buffer[next % BufferLen]
    IN  IF slot.pos = next
        THEN [ kind |-> "ok", pos |-> slot.pos, value |-> slot.val, missed |-> 0,
               next |-> next + 1 ]
        ELSE IF slot.pos + BufferLen = next
        THEN [ kind |-> IF ch_tx_cnt = 0 THEN "closed" ELSE "empty", pos |-> next,
               value |-> NoRecord, missed |-> 0, next |-> next ]
        ELSE [ kind |-> "lagged", pos |-> next, value |-> NoRecord,
               missed |-> (ch_pos - BufferLen) - next, next |-> ch_pos - BufferLen ]

\* Mutant: a lagged receiver reads on from the oldest record left.
on_lagged_continue(s, r) ==
    /\ sub' = [ sub EXCEPT ![s].next = r.next ]
    /\ UNCHANGED ch_rx_cnt

\* Err(RecvError::Lagged(amount_skipped)) in wait_for_event: the call panics
\* with the count, and the unwinding, through collect_events when it is the
\* caller, drops the receiver.
on_lagged(s, r) ==
    /\ sub' = [ sub EXCEPT ![s].pc = "panicked", ![s].filter = "", ![s].events = <<>>,
                           ![s].call_start = 0,
                           ![s].missed = r.missed, ![s].next = r.next ]
    /\ ch_rx_cnt' = ch_rx_cnt - 1

\* Mutant: wait_for_event returns the first event whatever the filter says.
on_event_first(s, r) ==
    /\ IF sub[s].collecting
       THEN IF filter_matches(sub[s].filter, r.value)
            THEN sub' = [ sub EXCEPT ![s].next = r.next, ![s].elapsed = 0,
                                     ![s].events = Append(@, r.value) ]
            ELSE sub' = [ sub EXCEPT ![s].next = r.next ]
       ELSE sub' = [ sub EXCEPT ![s].pc = "idle", ![s].filter = "", ![s].next = r.next,
                                ![s].ret = [ kind |-> "option", val |-> Some(r.value) ] ]
    /\ UNCHANGED ch_rx_cnt

\* Mutant: one timeout runs for the whole of collect_events.
on_event_one_timeout(s, r) ==
    /\ IF ~filter_matches(sub[s].filter, r.value)
       THEN sub' = [ sub EXCEPT ![s].next = r.next ]
       ELSE IF sub[s].collecting
       THEN sub' = [ sub EXCEPT ![s].next = r.next, ![s].events = Append(@, r.value) ]
       ELSE sub' = [ sub EXCEPT ![s].pc = "idle", ![s].filter = "", ![s].next = r.next,
                                ![s].ret = [ kind |-> "option", val |-> Some(r.value) ] ]
    /\ UNCHANGED ch_rx_cnt

\* Mutant: a record the filter rejects is left at the cursor.
on_event_keeps_skipped(s, r) ==
    /\ IF ~filter_matches(sub[s].filter, r.value)
       THEN sub' = sub
       ELSE IF sub[s].collecting
       THEN sub' = [ sub EXCEPT ![s].next = r.next, ![s].elapsed = 0,
                                ![s].events = Append(@, r.value) ]
       ELSE sub' = [ sub EXCEPT ![s].pc = "idle", ![s].filter = "", ![s].next = r.next,
                                ![s].ret = [ kind |-> "option", val |-> Some(r.value) ] ]
    /\ UNCHANGED ch_rx_cnt

\* Ok(event) in wait_for_event: an event that matches the filter is returned,
\* another one is skipped and the loop goes on. collect_events pushes the
\* event returned and calls wait_for_event again.
on_event(s, r) ==
    /\ IF ~filter_matches(sub[s].filter, r.value)
       THEN sub' = [ sub EXCEPT ![s].next = r.next ]
       ELSE IF sub[s].collecting
       THEN sub' = [ sub EXCEPT ![s].next = r.next, ![s].elapsed = 0,
                                ![s].events = Append(@, r.value) ]
       ELSE sub' = [ sub EXCEPT ![s].pc = "idle", ![s].filter = "", ![s].next = r.next,
                                ![s].ret = [ kind |-> "option", val |-> Some(r.value) ] ]
    /\ UNCHANGED ch_rx_cnt

\* Err(_) in wait_for_event, which is RecvError::Closed: the call returns
\* None, on which collect_events returns the events it has pushed.
on_closed(s) ==
    /\ sub' = [ sub EXCEPT ![s].pc = "idle", ![s].filter = "", ![s].collecting = FALSE,
                           ![s].events = <<>>,
                           ![s].ret = IF sub[s].collecting
                                      THEN [ kind |-> "vec", val |-> sub[s].events ]
                                      ELSE [ kind |-> "option", val |-> None ] ]
    /\ UNCHANGED ch_rx_cnt

\* One self.receiver.recv() that is ready, inside wait_for_event's loop.
wait_for_event_recv(s) ==
    /\ sub[s].pc = "waiting"
    /\ LET r == recv_ref(sub[s].next)
       IN  /\ r.kind # "empty"
           /\ IF r.kind = "lagged"
              THEN /\ on_lagged(s, r)
                   /\ UNCHANGED received
              ELSE IF r.kind = "closed"
              THEN /\ on_closed(s)
                   /\ UNCHANGED received
              ELSE /\ on_event(s, r)
                   /\ received' = [ received EXCEPT ![s] =
                                      Append(@, [ pos |-> r.pos, rec |-> r.value ]) ]
    /\ UNCHANGED << levels, guards, set_levels_call, ch_pos, ch_buffer, prod, sent, truncVars, emitVars, fileVars, sinkVars, spanVars, poolVars, selectVars, senderVars >>

\* Mutant: a call that times out gives up the records it has not received.
wait_for_event_timeout_skips(s) ==
    /\ sub[s].pc = "waiting"
    /\ sub[s].elapsed >= sub[s].timeout
    /\ sub' = [ sub EXCEPT ![s].pc = "idle", ![s].filter = "", ![s].collecting = FALSE,
                           ![s].events = <<>>, ![s].next = ch_pos,
                           ![s].ret = IF sub[s].collecting
                                      THEN [ kind |-> "vec", val |-> sub[s].events ]
                                      ELSE [ kind |-> "option", val |-> None ] ]
    /\ UNCHANGED << levels, guards, set_levels_call, ch_pos, ch_rx_cnt, ch_buffer, prod, sent, received,
                    truncVars, emitVars, fileVars, sinkVars, spanVars, poolVars, selectVars, senderVars >>

\* Mutant: the timeout fires whenever the loop is suspended.
wait_for_event_timeout_early(s) ==
    /\ sub[s].pc = "waiting"
    /\ sub' = [ sub EXCEPT ![s].pc = "idle", ![s].filter = "", ![s].collecting = FALSE,
                           ![s].events = <<>>,
                           ![s].ret = IF sub[s].collecting
                                      THEN [ kind |-> "vec", val |-> sub[s].events ]
                                      ELSE [ kind |-> "option", val |-> None ] ]
    /\ UNCHANGED << levels, guards, set_levels_call, ch_pos, ch_rx_cnt, ch_buffer, prod, sent, received,
                    truncVars, emitVars, fileVars, sinkVars, spanVars, poolVars, selectVars, senderVars >>

\* The timeout of wait_for_event elapses while the loop is suspended: the
\* call returns None and the receiver stays as it is; collect_events returns
\* the events it has pushed.
wait_for_event_timeout(s) ==
    /\ sub[s].pc = "waiting"
    /\ sub[s].elapsed >= sub[s].timeout
    /\ sub' = [ sub EXCEPT ![s].pc = "idle", ![s].filter = "", ![s].collecting = FALSE,
                           ![s].events = <<>>,
                           ![s].ret = IF sub[s].collecting
                                      THEN [ kind |-> "vec", val |-> sub[s].events ]
                                      ELSE [ kind |-> "option", val |-> None ] ]
    /\ UNCHANGED << levels, guards, set_levels_call, ch_pos, ch_rx_cnt, ch_buffer, prod, sent, received,
                    truncVars, emitVars, fileVars, sinkVars, spanVars, poolVars, selectVars, senderVars >>

\* Mutant: a call that is cancelled has taken the record at its cursor with
\* it.
wait_for_event_cancel_consumes(s) ==
    /\ sub[s].pc = "waiting"
    /\ LET r == recv_ref(sub[s].next)
       IN  /\ sub' = [ sub EXCEPT ![s].pc = "idle", ![s].filter = "", ![s].collecting = FALSE,
                                  ![s].events = <<>>, ![s].ret = NoReturn,
                                  ![s].next = IF r.kind = "ok" THEN r.next ELSE sub[s].next ]
           /\ received' = IF r.kind = "ok"
                          THEN [ received EXCEPT ![s] =
                                   Append(@, [ pos |-> r.pos, rec |-> r.value ]) ]
                          ELSE received
    /\ UNCHANGED << levels, guards, set_levels_call, ch_pos, ch_rx_cnt, ch_buffer, prod, sent,
                    truncVars, emitVars, fileVars, sinkVars, spanVars, poolVars, selectVars, senderVars >>

\* The future of wait_for_event, or of the collect_events around it, is
\* dropped by its caller while the loop is suspended in recv().await: the
\* call returns nothing, the vector of collect_events is dropped with it and
\* the receiver, which the subscriber owns, stays as it is.
wait_for_event_cancel(s) ==
    /\ sub[s].pc = "waiting"
    /\ sub' = [ sub EXCEPT ![s].pc = "idle", ![s].filter = "", ![s].collecting = FALSE,
                           ![s].events = <<>>, ![s].ret = NoReturn ]
    /\ UNCHANGED << levels, guards, set_levels_call, ch_pos, ch_rx_cnt, ch_buffer, prod, sent, received,
                    truncVars, emitVars, fileVars, sinkVars, spanVars, poolVars, selectVars, senderVars >>

\* Time passes: a unit of the timeout of every call that is waiting and whose
\* timeout has not elapsed.
tick ==
    /\ \E s \in Subs : sub[s].pc = "waiting" /\ sub[s].elapsed < sub[s].timeout
    /\ sub' = [ s \in Subs |->
                 IF sub[s].pc = "waiting" /\ sub[s].elapsed < sub[s].timeout
                 THEN [ sub[s] EXCEPT !.elapsed = @ + 1 ]
                 ELSE sub[s] ]
    /\ UNCHANGED << levels, guards, set_levels_call, ch_pos, ch_rx_cnt, ch_buffer, prod, sent, received,
                    truncVars, emitVars, fileVars, sinkVars, spanVars, poolVars, selectVars, senderVars >>

\* No truncation is under way.
TruncOff == t_orig = <<>> /\ t_s = <<>> /\ t_new_len = 0 /\ t_pc = "off"


NoOutput == [ target |-> "", level |-> "", fields |-> <<>> ]
NoInput == [ kind |-> "", doc |-> <<>> ]

\* No emitter exists.
EmitOff ==
    /\ e_test_build = FALSE
    /\ e_cmd = [ max_document_length_bytes |-> 0, client_id |-> None ]
    /\ e_conn = [ client_id |-> None ]
    /\ e_sdam = [ max_document_length_bytes |-> 0, client_id |-> None ]
    /\ e_in = NoInput
    /\ e_out = NoOutput
    /\ e_pc = "off"

\* No test file is being merged.
FileOff == f_file = <<>> /\ f_out = <<>> /\ f_pc = "off"

\* The hub is the default sink for the whole behaviour and no other sink is
\* looked at.
SinkOff == d_default = "hub" /\ d_guard = <<>> /\ d_elsewhere = 0

\* No span operation has been called.
NoSpanCall == [ op |-> "", args |-> <<>>, ret |-> None ]

\* No connection pool exists.
\* No server selection is under way.
\* The hub, which owns the sender of the channel, exists.
SenderOn == ch_tx_cnt = 1

SelectOff == ss = <<>>

PoolOff == co = <<>>

SpanOff == span_call = NoSpanCall

\* The hub as constructed.
Init ==
    /\ HubInit
    /\ TruncOff
    /\ EmitOff
    /\ FileOff
    /\ SinkOff
    /\ SpanOff
    /\ PoolOff
    /\ SelectOff
    /\ SenderOn

\* The hub with two producers and two subscribers, whose calls of
\* wait_for_event take the filter |_| true and a timeout of zero. One test at
\* a time sets the levels (the tests run under LOCK.run_exclusively).
Next ==
    \/ \E m \in LevelMaps : guards = 0 /\ set_levels(m)
    \/ TracingLevelsGuard_drop
    \/ \E p \in Producers, ev \in HubEvents : emit_enabled(p, ev)
    \/ \E p \in Producers : emit_dropped(p)
    \/ \E p \in Producers : emit_event(p)
    \/ \E s \in Subs : subscribe(s)
    \/ \E s \in Subs : wait_for_event_call(s, 0, "any")
    \/ \E s \in Subs : wait_for_event_recv(s)
    \/ \E s \in Subs : wait_for_event_timeout(s)

Spec == Init /\ [][Next]_vars

\* The hub with two producers and one subscriber that calls wait_for_event
\* and collect_events.
CollectNext ==
    \/ \E m \in LevelMaps : guards = 0 /\ set_levels(m)
    \/ TracingLevelsGuard_drop
    \/ \E p \in Producers, ev \in HubEvents : emit_enabled(p, ev)
    \/ \E p \in Producers : emit_dropped(p)
    \/ \E p \in Producers : emit_event(p)
    \/ subscribe("s1")
    \/ \E f \in Filters : wait_for_event_call("s1", 0, f)
    \/ \E f \in Filters : collect_events_call("s1", 0, f)
    \/ wait_for_event_recv("s1")
    \/ wait_for_event_timeout("s1")

SpecCollect == Init /\ [][CollectNext]_vars

\* The command events of the waiting specification: one with the message of
\* each of the two filters, both at DEBUG.
WaitEvents ==
    { [ target |-> COMMAND_TRACING_EVENT_TARGET, level |-> "DEBUG",
        fields |-> << [ name |-> "message", ty |-> "debug", val |-> m ] >> ] :
      m \in { "Command started", "Command succeeded" } }

\* The timeouts of the calls of the waiting specification.
WaitTimeouts == { 0, MaxTimeout }

\* A hub whose level map a test has set to debug_commands_map, holding the
\* guard, and to which the test has subscribed.
WaitInit ==
    /\ levels \in LevelMaps
    /\ guards = 1
    /\ set_levels_call = [ before |-> EmptyLevels, new_levels |-> levels ]
    /\ ch_pos = 0
    /\ ch_rx_cnt = 1
    /\ ch_buffer = [ i \in 0 .. (BufferLen - 1) |-> [ pos |-> i - BufferLen, val |-> NoRecord ] ]
    /\ prod = [ p \in Producers |-> IdleProducer ]
    /\ sub = [ s \in Subs |-> IF s = "s1" THEN [ NewSubscriber EXCEPT !.pc = "idle" ]
                                ELSE NewSubscriber ]
    /\ sent = <<>>
    /\ received = [ s \in Subs |-> <<>> ]
    /\ TruncOff
    /\ EmitOff
    /\ FileOff
    /\ SinkOff
    /\ SpanOff
    /\ PoolOff
    /\ SelectOff
    /\ SenderOn

\* One producer of command events and the subscriber, which calls
\* wait_for_event and collect_events while time passes.
WaitNext ==
    \/ \E ev \in WaitEvents : emit_enabled("p1", ev)
    \/ emit_event("p1")
    \/ \E timeout \in WaitTimeouts, f \in Filters : wait_for_event_call("s1", timeout, f)
    \/ \E timeout \in WaitTimeouts, f \in Filters : collect_events_call("s1", timeout, f)
    \/ wait_for_event_recv("s1")
    \/ wait_for_event_timeout("s1")
    \/ tick

SpecWait == WaitInit /\ [][WaitNext]_vars

\* Time does not stop while a call waits, and the runtime polls a call whose
\* timeout has elapsed.
SpecWaitFair ==
    /\ SpecWait
    /\ WF_vars(tick)
    /\ WF_vars(wait_for_event_timeout("s1"))

\* The waiting specification with a caller that may drop a call it has
\* started.
CancelNext ==
    \/ WaitNext
    \/ wait_for_event_cancel("s1")

SpecCancel == WaitInit /\ [][CancelNext]_vars

\* The span attributes and the span identities the facade passes to the hub.
SpanAttributes == { "connect", "handshake" }
SpanIds == { 1, 2 }

\* Mutant: every span gets an identity of its own.
new_span_fresh(span) == IF span = "connect" THEN 1 ELSE 2

\* TracingHandler::new_span(_span): span::Id::from_u64(1).
new_span(span) == 1

\* A call of new_span: the attributes are not looked at.
new_span_call(span) ==
    /\ span_call' = [ op |-> "new_span", args |-> << span >>, ret |-> Some(new_span(span)) ]
    /\ UNCHANGED << hubVars, truncVars, emitVars, fileVars, sinkVars, poolVars, selectVars, senderVars >>

\* TracingHandler::record(_span, _values): an empty body.
record(span, values) ==
    /\ span_call' = [ op |-> "record", args |-> << span, values >>, ret |-> None ]
    /\ UNCHANGED << hubVars, truncVars, emitVars, fileVars, sinkVars, poolVars, selectVars, senderVars >>

\* TracingHandler::record_follows_from(_span, _follows): an empty body.
record_follows_from(span, follows) ==
    /\ span_call' = [ op |-> "record_follows_from", args |-> << span, follows >>, ret |-> None ]
    /\ UNCHANGED << hubVars, truncVars, emitVars, fileVars, sinkVars, poolVars, selectVars, senderVars >>

\* TracingHandler::enter(_span): an empty body.
enter(span) ==
    /\ span_call' = [ op |-> "enter", args |-> << span >>, ret |-> None ]
    /\ UNCHANGED << hubVars, truncVars, emitVars, fileVars, sinkVars, poolVars, selectVars, senderVars >>

\* TracingHandler::exit(_span): an empty body.
exit(span) ==
    /\ span_call' = [ op |-> "exit", args |-> << span >>, ret |-> None ]
    /\ UNCHANGED << hubVars, truncVars, emitVars, fileVars, sinkVars, poolVars, selectVars, senderVars >>

\* The hub with its levels set and a subscriber, one producer of command
\* events, and a facade that calls the span operations at any time.
SpanNext ==
    \/ \E ev \in WaitEvents : emit_enabled("p1", ev)
    \/ emit_event("p1")
    \/ wait_for_event_call("s1", 0, "any")
    \/ wait_for_event_recv("s1")
    \/ wait_for_event_timeout("s1")
    \/ \E span \in SpanAttributes : new_span_call(span)
    \/ \E span \in SpanIds, values \in SpanAttributes : record(span, values)
    \/ \E span \in SpanIds, follows \in SpanIds : record_follows_from(span, follows)
    \/ \E span \in SpanIds : enter(span)
    \/ \E span \in SpanIds : exit(span)

SpecSpan == WaitInit /\ [][SpanNext]_vars

\* Mutant: the hub is dropped although a subscriber or a levels guard
\* borrows it.
TracingHandler_drop_while_borrowed ==
    /\ ch_tx_cnt > 0
    /\ ch_tx_cnt' = ch_tx_cnt - 1
    /\ UNCHANGED << hubVars, truncVars, emitVars, fileVars, sinkVars, spanVars, poolVars, selectVars >>

\* The hub is dropped, and the channel's sender with it: the subscribers
\* and the levels guards hold a reference to the hub ('a), so none of them
\* exists any more.
TracingHandler_drop ==
    /\ ch_tx_cnt > 0
    /\ guards = 0
    /\ \A s \in Subs : sub[s].pc \in { "none", "panicked" }
    /\ ch_tx_cnt' = ch_tx_cnt - 1
    /\ UNCHANGED << hubVars, truncVars, emitVars, fileVars, sinkVars, spanVars, poolVars, selectVars >>

\* A subscriber that is in no call is dropped, and its receiver with it.
TracingSubscriber_drop(s) ==
    /\ sub[s].pc = "idle"
    /\ sub' = [ sub EXCEPT ![s] = NewSubscriber ]
    /\ ch_rx_cnt' = ch_rx_cnt - 1
    /\ UNCHANGED << levels, guards, set_levels_call, ch_pos, ch_buffer, prod, sent, received,
                    truncVars, emitVars, fileVars, sinkVars, spanVars, poolVars, selectVars, senderVars >>

\* The waiting specification with the ends of the lifetimes: the test
\* releases its guard, drops the subscriber and drops the hub, or subscribes
\* again while the hub exists.
ClosedNext ==
    \/ ch_tx_cnt > 0 /\ \E ev \in WaitEvents : emit_enabled("p1", ev)
    \/ ch_tx_cnt > 0 /\ emit_event("p1")
    \/ ch_tx_cnt > 0 /\ emit_dropped("p1")
    \/ ch_tx_cnt > 0 /\ subscribe("s1")
    \/ \E timeout \in WaitTimeouts : wait_for_event_call("s1", timeout, "Command started")
    \/ wait_for_event_recv("s1")
    \/ wait_for_event_timeout("s1")
    \/ tick
    \/ TracingSubscriber_drop("s1")
    \/ TracingLevelsGuard_drop
    \/ TracingHandler_drop

SpecClosed == WaitInit /\ [][ClosedNext]_vars

\* The level map and the filter alone: every level map, every target and
\* level, no subscriber.
LevelsNext ==
    \/ \E m \in AllLevelMaps : set_levels(m)
    \/ TracingLevelsGuard_drop
    \/ \E ev \in AllEvents : emit_enabled("p1", ev)
    \/ emit_dropped("p1")
    \/ emit_event("p1")

SpecLevels == Init /\ [][LevelsNext]_vars

\* ---------------------------------------------------------------------------
\* Truncation specification: truncate_on_char_boundary on bounded inputs
\* ---------------------------------------------------------------------------
TruncStrings == StringsOfChars(MaxChars)
TruncBudgets == 0 .. (4 * MaxChars + BudgetSlack)

TruncInit ==
    /\ t_orig \in TruncStrings
    /\ t_s = t_orig
    /\ t_new_len \in TruncBudgets
    /\ t_pc = "ready"
    /\ HubInit
    /\ EmitOff
    /\ FileOff
    /\ SinkOff
    /\ SpanOff
    /\ PoolOff
    /\ SelectOff
    /\ SenderOn

\* truncate_on_char_boundary(&mut s, new_len)
Truncate ==
    /\ t_pc = "ready"
    /\ t_s' = truncate_on_char_boundary(t_s, t_new_len)
    /\ t_pc' = "done"
    /\ UNCHANGED << t_orig, t_new_len, hubVars, emitVars, fileVars, sinkVars, spanVars, poolVars, selectVars, senderVars >>

TruncNext == Truncate

SpecTrunc == TruncInit /\ [][TruncNext]_vars

\* ---------------------------------------------------------------------------
\* Emitter specification: the command and SDAM emitters of one client, each
\* handling one event
\* ---------------------------------------------------------------------------
EmitBudgets == 0 .. MaxEmitBudget

\* The emitters as constructed for a client: the command emitter by
\* CommandTracingEventEmitter::new, the SDAM emitter with a budget and the
\* client's id as its fields.
EmitInit ==
    /\ e_test_build \in BOOLEAN
    /\ \E n \in { Some(b) : b \in EmitBudgets } \cup { None },
          id \in { None, Some("client0") } :
         e_cmd = CommandTracingEventEmitter_new(n, id)
    /\ \E n \in EmitBudgets \cup { DEFAULT_MAX_DOCUMENT_LENGTH_BYTES } :
         e_sdam = [ max_document_length_bytes |-> n, client_id |-> e_cmd.client_id ]
    /\ e_conn = ConnectionTracingEventEmitter_new(e_cmd.client_id)
    /\ e_in = NoInput
    /\ e_out = NoOutput
    /\ e_pc = "ready"
    /\ HubInit
    /\ TruncOff
    /\ FileOff
    /\ SinkOff
    /\ SpanOff
    /\ PoolOff
    /\ SelectOff
    /\ SenderOn

\* The events handed to the handlers.
EmitEvents ==
    { [ doc |-> d, connection |-> e.connection, service_id |-> e.service_id,
        server_address |-> e.connection.address, db |-> "tracing_test",
        command_name |-> "insert", request_id |-> 8, duration_ms |-> 2 ] :
      d \in Docs, e \in EventEnds }

CommandStarted(event) ==
    /\ e_pc = "ready"
    /\ e_out' = handle_command_started_event(e_test_build, e_cmd, event)
    /\ e_in' = [ kind |-> "command_started", doc |-> event.doc ]
    /\ e_pc' = "emitted"
    /\ UNCHANGED << emitterVars, hubVars, truncVars, fileVars, sinkVars, spanVars, poolVars, selectVars, senderVars >>

CommandSucceeded(event) ==
    /\ e_pc = "ready"
    /\ e_out' = handle_command_succeeded_event(e_test_build, e_cmd, event)
    /\ e_in' = [ kind |-> "command_succeeded", doc |-> event.doc ]
    /\ e_pc' = "emitted"
    /\ UNCHANGED << emitterVars, hubVars, truncVars, fileVars, sinkVars, spanVars, poolVars, selectVars, senderVars >>

ServerHeartbeatSucceeded(event) ==
    /\ e_pc = "ready"
    /\ e_out' = handle_server_heartbeat_succeeded_event(e_test_build, e_sdam, event)
    /\ e_in' = [ kind |-> "server_heartbeat_succeeded", doc |-> event.doc ]
    /\ e_pc' = "emitted"
    /\ UNCHANGED << emitterVars, hubVars, truncVars, fileVars, sinkVars, spanVars, poolVars, selectVars, senderVars >>

EmitNext ==
    \/ \E event \in EmitEvents : CommandStarted(event)
    \/ \E event \in EmitEvents : CommandSucceeded(event)
    \/ \E event \in EmitEvents : ServerHeartbeatSucceeded(event)

SpecEmit == EmitInit /\ [][EmitNext]_vars

\* The errors of the failed commands, each with its kind and with what its
\* Display implementation writes.
FailedErrors ==
    { [ kind |-> "Redacted", display |-> "Kind: REDACTED, labels: {}" ],
      [ kind |-> "Command", display |-> "Kind: Command failed: Error code 11000, labels: {}" ],
      [ kind |-> "Io", display |-> "Kind: I/O error: connection reset, labels: {}" ] }

\* The command-failed events handed to the handler.
FailedEvents ==
    { [ failure |-> f, connection |-> e.connection, service_id |-> e.service_id,
        command_name |-> "insert", request_id |-> 8, duration_ms |-> d ] :
      f \in FailedErrors, e \in EventEnds, d \in { 0, 2 } }

CommandFailed(event) ==
    /\ e_pc = "ready"
    /\ e_out' = handle_command_failed_event(e_test_build, e_cmd, event)
    /\ e_in' = [ kind |-> "command_failed", doc |-> <<>>, event |-> event ]
    /\ e_pc' = "emitted"
    /\ UNCHANGED << emitterVars, hubVars, truncVars, fileVars, sinkVars, spanVars, poolVars, selectVars, senderVars >>

FailedNext == \E event \in FailedEvents : CommandFailed(event)

\* The emitters of one client, the command emitter handling one failed
\* command.
SpecFailed == EmitInit /\ [][FailedNext]_vars

\* The command emitter of one client handling one event of any of the three
\* kinds.
CommandNext ==
    \/ \E event \in EmitEvents : CommandStarted(event)
    \/ \E event \in EmitEvents : CommandSucceeded(event)
    \/ \E event \in FailedEvents : CommandFailed(event)

SpecCommand == EmitInit /\ [][CommandNext]_vars

\* ---------------------------------------------------------------------------
\* Handler specification: the three emitters of one client, one of them
\* handling one event of any kind
\* ---------------------------------------------------------------------------

\* The addresses of the events: a TCP address, and one without a port.
Addresses ==
    { [ host |-> "localhost", port |-> Some(27017) ], [ host |-> "/tmp/mongodb.sock", port |-> None ] }

\* The options of a pool: none, all unset, and all set.
PoolOptions ==
    { None,
      Some([ max_idle_time |-> None, max_pool_size |-> None, min_pool_size |-> None ]),
      Some([ max_idle_time |-> Some(1000), max_pool_size |-> Some(10), min_pool_size |-> Some(0) ]) }

ConnectionClosedReasons == { "Stale", "Idle", "Error", "Dropped", "PoolClosed" }

ConnectionCheckoutFailedReasons == { "Timeout", "ConnectionError" }

\* The events of the connection pools, with the fields the handlers read.
PoolCreatedEvents == { [ address |-> a, options |-> o ] : a \in Addresses, o \in PoolOptions }

PoolEvents ==
    { [ address |-> a, service_id |-> s ] : a \in Addresses, s \in { None, Some(ServiceId) } }

ConnectionEvents == { [ address |-> a, connection_id |-> 3 ] : a \in Addresses }

ConnectionClosedEvents ==
    { [ address |-> a, connection_id |-> 3, reason |-> r ] :
      a \in Addresses, r \in ConnectionClosedReasons }

ConnectionCheckoutFailedEvents ==
    { [ address |-> a, reason |-> r ] : a \in Addresses, r \in ConnectionCheckoutFailedReasons }

\* The descriptions of the SDAM events: bson::to_bson gives a document for
\* them or fails with an error.
Descriptions ==
    { [ to_bson |-> [ ok |-> TRUE, doc |-> <<>> ] ],
      [ to_bson |-> [ ok |-> TRUE,
                      doc |-> << [ key |-> << 120 >>, value |-> [ type |-> "int32", v |-> 1 ] ] >> ] ],
      [ to_bson |-> [ ok |-> FALSE, err |-> "invalid value" ] ] }

TopologyId == << 99, 0, 1, 2, 3, 4, 5, 6, 7, 8, 9, 10 >>

ServerEvents == { [ address |-> a, topology_id |-> TopologyId ] : a \in Addresses }

ServerDescriptionChangedEvents ==
    { [ address |-> a, topology_id |-> TopologyId, previous_description |-> d1,
        new_description |-> d2 ] :
      a \in Addresses, d1 \in Descriptions, d2 \in Descriptions }

TopologyEvents == { [ topology_id |-> TopologyId ] }

TopologyDescriptionChangedEvents ==
    { [ topology_id |-> TopologyId, previous_description |-> d1, new_description |-> d2 ] :
      d1 \in Descriptions, d2 \in Descriptions }

HeartbeatEvents == { [ server_address |-> a, duration_ms |-> 2 ] : a \in Addresses }

\* One call of a handler: the event it publishes is kept with the event
\* handled; the handler returns nothing and leaves the emitters as they are.
Handle(kind, event, out) ==
    /\ e_pc = "ready"
    /\ e_out' = out
    /\ e_in' = [ kind |-> kind, doc |-> <<>>, event |-> event ]
    /\ e_pc' = "emitted"
    /\ UNCHANGED << emitterVars, hubVars, truncVars, fileVars, sinkVars, spanVars, poolVars, selectVars, senderVars >>

ServerDescriptionChanged(event) ==
    Handle("server_description_changed", event,
           handle_server_description_changed_event(e_test_build, e_sdam, event))

TopologyDescriptionChanged(event) ==
    Handle("topology_description_changed", event,
           handle_topology_description_changed_event(e_test_build, e_sdam, event))

HandlerNext ==
    \/ \E event \in EmitEvents : CommandStarted(event)
    \/ \E event \in EmitEvents : CommandSucceeded(event)
    \/ \E event \in FailedEvents : CommandFailed(event)
    \/ \E event \in PoolCreatedEvents :
          Handle("pool_created", event,
                 handle_pool_created_event(e_test_build, e_conn, event))
    \/ \E event \in PoolEvents :
          Handle("pool_ready", event,
                 handle_pool_ready_event(e_test_build, e_conn, event))
    \/ \E event \in PoolEvents :
          Handle("pool_cleared", event,
                 handle_pool_cleared_event(e_test_build, e_conn, event))
    \/ \E event \in PoolEvents :
          Handle("pool_closed", event,
                 handle_pool_closed_event(e_test_build, e_conn, event))
    \/ \E event \in ConnectionEvents :
          Handle("connection_created", event,
                 handle_connection_created_event(e_test_build, e_conn, event))
    \/ \E event \in ConnectionEvents :
          Handle("connection_ready", event,
                 handle_connection_ready_event(e_test_build, e_conn, event))
    \/ \E event \in ConnectionClosedEvents :
          Handle("connection_closed", event,
                 handle_connection_closed_event(e_test_build, e_conn, event))
    \/ \E event \in PoolEvents :
          Handle("connection_checkout_started", event,
                 handle_connection_checkout_started_event(e_test_build, e_conn, event))
    \/ \E event \in ConnectionCheckoutFailedEvents :
          Handle("connection_checkout_failed", event,
                 handle_connection_checkout_failed_event(e_test_build, e_conn, event))
    \/ \E event \in ConnectionEvents :
          Handle("connection_checked_out", event,
                 handle_connection_checked_out_event(e_test_build, e_conn, event))
    \/ \E event \in ConnectionEvents :
          Handle("connection_checked_in", event,
                 handle_connection_checked_in_event(e_test_build, e_conn, event))
    \/ \E event \in ServerDescriptionChangedEvents : ServerDescriptionChanged(event)
    \/ \E event \in ServerEvents :
          Handle("server_opening", event,
                 handle_server_opening_event(e_test_build, e_sdam, event))
    \/ \E event \in ServerEvents :
          Handle("server_closed", event,
                 handle_server_closed_event(e_test_build, e_sdam, event))
    \/ \E event \in TopologyDescriptionChangedEvents : TopologyDescriptionChanged(event)
    \/ \E event \in TopologyEvents :
          Handle("topology_opening", event,
                 handle_topology_opening_event(e_test_build, e_sdam, event))
    \/ \E event \in TopologyEvents :
          Handle("topology_closed", event,
                 handle_topology_closed_event(e_test_build, e_sdam, event))
    \/ \E event \in HeartbeatEvents :
          Handle("server_heartbeat_started", event,
                 handle_server_heartbeat_started_event(e_test_build, e_sdam, event))
    \/ \E event \in EmitEvents : ServerHeartbeatSucceeded(event)
    \/ \E event \in HeartbeatEvents :
          Handle("server_heartbeat_failed", event,
                 handle_server_heartbeat_failed_event(e_test_build, e_sdam, event))

SpecHandlers == EmitInit /\ [][HandlerNext]_vars

\* ---------------------------------------------------------------------------
\* Lost record specification: an event on its way to a hub that has no
\* subscriber yet
\* ---------------------------------------------------------------------------

\* The two events of the specification, told apart by their message.
EventWithMessage(m) ==
    [ target |-> COMMAND_TRACING_EVENT_TARGET, level |-> "DEBUG",
      fields |-> << [ name |-> "message", ty |-> "debug", val |-> m ] >> ]

\* A hub with debug_commands_map as its levels and no subscriber, whose
\* enabled has let through a "Command started" event of producer p1.
LostInit ==
    /\ levels \in LevelMaps
    /\ guards = 1
    /\ set_levels_call = [ before |-> EmptyLevels, new_levels |-> levels ]
    /\ ch_pos = 0
    /\ ch_rx_cnt = 0
    /\ ch_buffer = [ i \in 0 .. (BufferLen - 1) |-> [ pos |-> i - BufferLen, val |-> NoRecord ] ]
    /\ prod = [ p \in Producers |->
                  IF p = "p1"
                  THEN [ pc |-> "enabled", ev |-> EventWithMessage("Command started") ]
                  ELSE IdleProducer ]
    /\ sub = [ s \in Subs |-> NewSubscriber ]
    /\ sent = <<>>
    /\ received = [ s \in Subs |-> <<>> ]
    /\ TruncOff
    /\ EmitOff
    /\ FileOff
    /\ SinkOff
    /\ SpanOff
    /\ PoolOff
    /\ SelectOff
    /\ SenderOn

\* Producer p1 hands over its one event; producer p2 emits "Command
\* succeeded" events; the subscribers subscribe and receive.
LostNext ==
    \/ emit_event("p1")
    \/ emit_enabled("p2", EventWithMessage("Command succeeded"))
    \/ emit_event("p2")
    \/ \E s \in Subs : subscribe(s)
    \/ \E s \in Subs : wait_for_event_call(s, 0, "any")
    \/ \E s \in Subs : wait_for_event_recv(s)
    \/ \E s \in Subs : wait_for_event_timeout(s)

SpecLost == LostInit /\ [][LostNext]_vars

\* ---------------------------------------------------------------------------
\* Default sink specification: the hub installed as the default sink of the
\* facade and released again
\* ---------------------------------------------------------------------------

\* The sinks that can be the default before the hub is installed: none, or
\* another subscriber.
PriorSinks == { "none", "other" }

\* Mutant: the release of the guard leaves the hub as the default.
DefaultGuard_drop_keeps ==
    /\ d_guard # None
    /\ d_guard' = None
    /\ UNCHANGED << d_default, d_elsewhere, hubVars, truncVars, emitVars, fileVars, spanVars, poolVars, selectVars, senderVars >>

\* set_as_default: the hub becomes the default sink and the guard returned
\* remembers the sink that was the default.
set_as_default ==
    /\ d_guard = None
    /\ d_guard' = Some(d_default)
    /\ d_default' = "hub"
    /\ d_elsewhere' = 0
    /\ UNCHANGED << hubVars, truncVars, emitVars, fileVars, spanVars, poolVars, selectVars, senderVars >>

\* The release of the guard, on leaving its scope and on unwinding alike: the
\* sink it remembers is the default again.
DefaultGuard_drop ==
    /\ d_guard # None
    /\ d_default' = d_guard[1]
    /\ d_guard' = None
    /\ UNCHANGED << d_elsewhere, hubVars, truncVars, emitVars, fileVars, spanVars, poolVars, selectVars, senderVars >>

\* The facade hands an event to the default sink, here the hub.
dispatch_hub(p, ev) ==
    /\ d_default = "hub"
    /\ emit_enabled(p, ev)

\* The facade hands an event to the default sink, here not the hub.
dispatch_elsewhere(p) ==
    /\ d_default # "hub"
    /\ prod[p].pc = "idle"
    /\ d_elsewhere < MaxSends
    /\ d_elsewhere' = d_elsewhere + 1
    /\ UNCHANGED << d_default, d_guard, hubVars, truncVars, emitVars, fileVars, spanVars, poolVars, selectVars, senderVars >>

\* A hub with debug_commands_map as its levels and one subscriber, not yet
\* installed.
SinkInit ==
    /\ levels \in LevelMaps
    /\ guards = 1
    /\ set_levels_call = [ before |-> EmptyLevels, new_levels |-> levels ]
    /\ ch_pos = 0
    /\ ch_rx_cnt = 1
    /\ ch_buffer = [ i \in 0 .. (BufferLen - 1) |-> [ pos |-> i - BufferLen, val |-> NoRecord ] ]
    /\ prod = [ p \in Producers |-> IdleProducer ]
    /\ sub = [ s \in Subs |-> IF s = "s1" THEN [ NewSubscriber EXCEPT !.pc = "idle" ]
                                ELSE NewSubscriber ]
    /\ sent = <<>>
    /\ received = [ s \in Subs |-> <<>> ]
    /\ SpanOff
    /\ PoolOff
    /\ SelectOff
    /\ SenderOn
    /\ d_default \in PriorSinks
    /\ d_guard = None
    /\ d_elsewhere = 0
    /\ TruncOff
    /\ EmitOff
    /\ FileOff

SinkNext ==
    \/ set_as_default
    \/ DefaultGuard_drop
    \/ \E ev \in WaitEvents : dispatch_hub("p1", ev)
    \/ dispatch_elsewhere("p1")
    \/ emit_event("p1")
    \/ wait_for_event_call("s1", 0, "any")
    \/ wait_for_event_recv("s1")
    \/ wait_for_event_timeout("s1")

SpecSink == SinkInit /\ [][SinkNext]_vars

\* ---------------------------------------------------------------------------
\* Level merge specification: max_verbosity_levels_from_test_file applied to
\* one test file
\* ---------------------------------------------------------------------------

\* TestFileEntity::Client with its observe_log_messages.
Client(observe_log_messages) ==
    [ kind |-> "Client", observe_log_messages |-> observe_log_messages ]

\* An entity of another variant of TestFileEntity.
Database == [ kind |-> "Database", id |-> "database0" ]

\* Ord::max on tracing::Level.
level_max(a, b) == IF level_le(a, b) THEN b ELSE a

\* Mutant: the level of the entity visited last replaces the merged one.
update_merged_levels_overwrites(merged_levels, entity) ==
    IF entity.kind # "Client"
    THEN merged_levels
    ELSE IF entity.observe_log_messages = None
         THEN merged_levels
         ELSE LET log_levels == entity.observe_log_messages[1]
              IN  [ component \in DOMAIN merged_levels \cup DOMAIN log_levels |->
                      IF component \in DOMAIN log_levels
                      THEN log_levels[component]
                      ELSE merged_levels[component] ]

\* Mutant: a component keeps the level of the entity that declared it first.
update_merged_levels_first_wins(merged_levels, entity) ==
    IF entity.kind # "Client"
    THEN merged_levels
    ELSE IF entity.observe_log_messages = None
         THEN merged_levels
         ELSE LET log_levels == entity.observe_log_messages[1]
              IN  [ component \in DOMAIN merged_levels \cup DOMAIN log_levels |->
                      IF component \in DOMAIN merged_levels
                      THEN merged_levels[component]
                      ELSE log_levels[component] ]

\* The closure update_merged_levels: the levels of a client entity are merged
\* into merged_levels, each component keeping the greater level.
update_merged_levels(merged_levels, entity) ==
    IF entity.kind # "Client"
    THEN merged_levels
    ELSE IF entity.observe_log_messages = None
         THEN merged_levels
         ELSE LET log_levels == entity.observe_log_messages[1]
              IN  [ component \in DOMAIN merged_levels \cup DOMAIN log_levels |->
                      IF component \in DOMAIN log_levels
                      THEN IF component \in DOMAIN merged_levels
                           THEN level_max(merged_levels[component], log_levels[component])
                           ELSE log_levels[component]
                      ELSE merged_levels[component] ]

RECURSIVE for_each_entity(_, _)
\* entities.iter().for_each(|e| update_merged_levels(&e))
for_each_entity(merged_levels, entities) ==
    IF entities = <<>>
    THEN merged_levels
    ELSE for_each_entity(update_merged_levels(merged_levels, Head(entities)), Tail(entities))

RECURSIVE for_each_operation(_, _)
\* The operations of a test named "createEntities", each with its entities.
for_each_operation(merged_levels, operations) ==
    IF operations = <<>>
    THEN merged_levels
    ELSE LET o == Head(operations)
         IN  for_each_operation(
                 IF o.name = "createEntities"
                 THEN for_each_entity(merged_levels, o.entities)
                 ELSE merged_levels,
                 Tail(operations))

RECURSIVE for_each_test(_, _)
\* for test in &test_file.tests
for_each_test(merged_levels, tests) ==
    IF tests = <<>>
    THEN merged_levels
    ELSE for_each_test(for_each_operation(merged_levels, Head(tests).operations), Tail(tests))

\* Mutant: the top-level create_entities list is not visited.
max_verbosity_levels_tests_only(test_file) ==
    for_each_test(EmptyLevels, test_file.tests)

\* max_verbosity_levels_from_test_file
max_verbosity_levels_from_test_file(test_file) ==
    LET merged_levels == for_each_test(EmptyLevels, test_file.tests)
    IN  IF test_file.create_entities # None
        THEN for_each_entity(merged_levels, test_file.create_entities[1])
        ELSE merged_levels

\* The entities of the test files.
FileEntities ==
    { Database,
      Client(None),
      Client(Some([ c \in { COMMAND_TRACING_EVENT_TARGET } |-> "DEBUG" ])),
      Client(Some([ c \in { COMMAND_TRACING_EVENT_TARGET } |-> "TRACE" ])),
      Client(Some([ c \in { CONNECTION_TRACING_EVENT_TARGET } |-> "INFO" ])),
      Client(Some([ c \in { COMMAND_TRACING_EVENT_TARGET, CONNECTION_TRACING_EVENT_TARGET } |->
                      IF c = COMMAND_TRACING_EVENT_TARGET THEN "INFO" ELSE "DEBUG" ])) }

\* How the entities of a file are spread over its four lists: MaxFileEntities
\* entities at most in the whole file.
FileShapes ==
    { n \in [ 1 .. 4 -> 0 .. MaxFileEntities ] : n[1] + n[2] + n[3] + n[4] <= MaxFileEntities }

\* A test file of two tests: the first test creates entities, the second runs
\* a find and then creates entities.
TestFileOf(create_entities, l1, l2, l3) ==
    [ create_entities |-> create_entities,
      tests |-> << [ operations |-> << [ name |-> "createEntities", entities |-> l1 ] >> ],
                   [ operations |-> << [ name |-> "find", entities |-> l2 ],
                                       [ name |-> "createEntities", entities |-> l3 ] >> ] >> ]

TestFiles ==
    UNION { { TestFileOf(c, l1, l2, l3) :
                c \in { Some(l0) : l0 \in [ 1 .. n[1] -> FileEntities ] }
                       \cup (IF n[1] = 0 THEN { None } ELSE {}),
                l1 \in [ 1 .. n[2] -> FileEntities ],
                l2 \in [ 1 .. n[3] -> FileEntities ],
                l3 \in [ 1 .. n[4] -> FileEntities ] } :
            n \in FileShapes }

FileInit ==
    /\ f_file \in TestFiles
    /\ f_out = <<>>
    /\ f_pc = "ready"
    /\ HubInit
    /\ TruncOff
    /\ EmitOff
    /\ SinkOff
    /\ SpanOff
    /\ PoolOff
    /\ SelectOff
    /\ SenderOn

\* The call of max_verbosity_levels_from_test_file on the file.
MergeLevels ==
    /\ f_pc = "ready"
    /\ f_out' = max_verbosity_levels_from_test_file(f_file)
    /\ f_pc' = "done"
    /\ UNCHANGED << f_file, hubVars, truncVars, emitVars, sinkVars, spanVars, poolVars, selectVars, senderVars >>

FileNext == MergeLevels

SpecFile == FileInit /\ [][FileNext]_vars

\* The character boundaries of a valid UTF-8 string, found by decoding it
\* character by character from the front: 0 and the end of every character.
RECURSIVE BoundariesFrom(_, _)
BoundariesFrom(s, at) ==
    IF at >= Len(s) THEN { at }
    ELSE { at } \cup BoundariesFrom(s, at + CharWidth(s[at + 1]))

CharBoundaries(s) == BoundariesFrom(s, 0)

SetMin(S) == CHOOSE x \in S : \A y \in S : x <= y

Min2(a, b) == IF a <= b THEN a ELSE b

\* C1: after truncate_on_char_boundary(s, n), s is the prefix of the original
\* of length m, the smallest character boundary of the original with m >= n;
\* when n >= len(s), s is unchanged.
C1_TruncatesAtSmallestBoundary ==
    t_pc = "done" =>
        IF t_new_len >= Len(t_orig)
        THEN t_s = t_orig
        ELSE LET m == SetMin({ b \in CharBoundaries(t_orig) : b >= t_new_len })
             IN  t_s = SubSeq(t_orig, 1, m)

\* C1 witness: a budget strictly inside a character was rounded up to the end
\* of that character, short of the end of the string.
C1_Witness ==
    /\ t_pc = "done"
    /\ t_new_len \notin CharBoundaries(t_orig)
    /\ Len(t_s) > t_new_len
    /\ Len(t_s) < Len(t_orig)

\* C2: the result of truncate_on_char_boundary(s, n) is valid UTF-8, its
\* length is >= min(n, len(s)) and <= len(s), and its length is a character
\* boundary of the original string.
C2_TruncationIsUtf8Safe ==
    t_pc = "done" =>
        /\ IsValidUtf8(t_s)
        /\ Len(t_s) >= Min2(t_new_len, Len(t_orig))
        /\ Len(t_s) <= Len(t_orig)
        /\ Len(t_s) \in CharBoundaries(t_orig)

\* C2 witness: the two-emoji string of the unit test truncated with budget 5,
\* which falls inside the second emoji: the whole string is kept.
C2_Witness ==
    /\ t_pc = "done"
    /\ t_orig = << 240, 159, 164, 148, 240, 159, 164, 148 >>
    /\ t_new_len = 5
    /\ t_s = t_orig

\* ---------------------------------------------------------------------------
\* The payload fields of the emitters
\* ---------------------------------------------------------------------------

\* The value of the field called name in a tracing event.
FieldValue(ev, name) ==
    LET i == CHOOSE k \in DOMAIN ev.fields : ev.fields[k].name = name
    IN  ev.fields[i].val

HasField(ev, name) == \E k \in DOMAIN ev.fields : ev.fields[k].name = name

\* The field that carries the payload of each kind of event, and the emitter
\* whose budget applies.
PayloadField == IF e_in.kind = "command_started" THEN "command" ELSE "reply"

PayloadBudget ==
    IF e_in.kind = "server_heartbeat_succeeded"
    THEN e_sdam.max_document_length_bytes
    ELSE e_cmd.max_document_length_bytes

\* C3: the command field of a command-started record and the reply field of
\* a command-succeeded and of a heartbeat-succeeded record are the canonical
\* extended JSON of the document truncated at the emitter's budget: a prefix
\* of the full rendering that ends on a character boundary, of the length of
\* the smallest boundary >= the budget (the whole rendering when the budget
\* is not below its length).
C3_PayloadIsTruncatedExtJson ==
    e_pc = "emitted" =>
        LET full == document_tracing_representation(e_in.doc)
            v == FieldValue(e_out, PayloadField)
        IN  /\ HasField(e_out, PayloadField)
            /\ Len(v) <= Len(full)
            /\ v = SubSeq(full, 1, Len(v))
            /\ Len(v) \in CharBoundaries(full)
            /\ Len(v) = IF PayloadBudget >= Len(full) THEN Len(full)
                        ELSE SetMin({ b \in CharBoundaries(full) : b >= PayloadBudget })

\* C3 witness: a heartbeat reply cut inside a character of the rendering was
\* rounded up to the end of that character.
C3_Witness ==
    /\ e_pc = "emitted"
    /\ e_in.kind = "server_heartbeat_succeeded"
    /\ LET full == document_tracing_representation(e_in.doc)
           v == FieldValue(e_out, "reply")
       IN  /\ Len(v) > e_sdam.max_document_length_bytes
           /\ Len(v) < Len(full)

\* ---------------------------------------------------------------------------
\* The filter and the publication of the hub
\* ---------------------------------------------------------------------------

\* The filter as the specification words it: the target has a configured
\* maximum M and the event's level L is at most M under
\* Error < Warn < Info < Debug < Trace.
LevelOrder == << "ERROR", "WARN", "INFO", "DEBUG", "TRACE" >>

Rank(l) == CHOOSE i \in 1 .. Len(LevelOrder) : LevelOrder[i] = l

SpecEnabled(levels_map, target, level) ==
    /\ target \in DOMAIN levels_map
    /\ Rank(level) <= Rank(levels_map[target])

\* C4: enabled returns false when the target is not a key of the level map,
\* and otherwise true iff L <= M for the configured maximum M of the target,
\* under Error < Warn < Info < Debug < Trace: whenever the facade asks, the
\* producer goes on to event() exactly when that holds of the map as it is.
C4_EnabledPredicate ==
    [][ \A p \in Producers :
          (prod[p].pc = "idle" /\ prod'[p].pc # "idle") =>
              ( prod'[p].pc = "enabled"
                  <=> SpecEnabled(levels, prod'[p].ev.target, prod'[p].ev.level) ) ]_vars

\* C4 witness: a Debug event on a target configured at Debug was let through.
C4_Witness ==
    \E p \in Producers :
        /\ prod[p].pc = "enabled"
        /\ prod[p].ev.level = "DEBUG"
        /\ prod[p].ev.target \in DOMAIN levels
        /\ levels[prod[p].ev.target] = "DEBUG"

\* C5: an event the filter rejects (target absent from the level map, or
\* level more verbose than the configured maximum) is dropped: it never
\* reaches event(), its drop changes nothing of the channel, every record
\* placed on the channel comes from an event that was let through, and a
\* subscriber receives only records of the channel.
C5_RejectedNeverBroadcast ==
    /\ [][ /\ \A p \in Producers :
                (/\ prod[p].pc = "idle"
                 /\ prod'[p].pc # "idle"
                 /\ ~SpecEnabled(levels, prod'[p].ev.target, prod'[p].ev.level))
                    => prod'[p].pc = "rejected"
           /\ \A p \in Producers :
                prod[p].pc = "rejected" =>
                    \/ prod'[p] = prod[p]
                    \/ /\ prod'[p] = IdleProducer
                       /\ UNCHANGED << sent, ch_buffer, ch_pos, received >>
           /\ sent' # sent =>
                \E p \in Producers :
                    /\ prod[p].pc = "enabled"
                    /\ prod'[p].pc = "idle"
                    /\ Len(sent') = Len(sent) + 1
                    /\ SubSeq(sent', 1, Len(sent)) = sent
                    /\ sent'[Len(sent')].target = prod[p].ev.target
                    /\ sent'[Len(sent')].level = prod[p].ev.level ]_vars
    /\ [] ( \A s \in Subs : \A i \in 1 .. Len(received[s]) :
              \E k \in 1 .. Len(sent) : received[s][i].rec = sent[k] )

\* C5 witness: with records on the channel and received, one producer holds
\* an event rejected for its target and the other one rejected for its level.
C5_Witness ==
    /\ Len(sent) > 0
    /\ \E s \in Subs : Len(received[s]) > 0
    /\ \E p, q \in Producers :
        /\ prod[p].pc = "rejected"
        /\ prod[p].ev.target \notin DOMAIN levels
        /\ prod[q].pc = "rejected"
        /\ prod[q].ev.target \in DOMAIN levels
        /\ Rank(prod[q].ev.level) > Rank(levels[prod[q].ev.target])

\* The variant of TracingEventValue the specification gives each value type.
SpecVariant ==
    [ f64 |-> "F64", i64 |-> "I64", u64 |-> "U64", i128 |-> "I128", u128 |-> "U128",
      bool |-> "Bool", str |-> "String", debug |-> "String" ]

\* C6: for every event let through, event() sends exactly one record (stored
\* by the channel when a receiver exists), whose level and target are those
\* of the event and whose field map has one entry per visited field, under
\* the variant of the recorded type.
C6_RecordOfEvent ==
    [][ \A p \in Producers :
          (prod[p].pc = "enabled" /\ prod'[p].pc = "idle") =>
              IF ch_rx_cnt = 0
              THEN sent' = sent
              ELSE /\ Len(sent') = Len(sent) + 1
                   /\ SubSeq(sent', 1, Len(sent)) = sent
                   /\ LET rec == sent'[Len(sent')]
                          ev == prod[p].ev
                      IN  /\ rec.level = ev.level
                          /\ rec.target = ev.target
                          /\ DOMAIN rec.fields = { ev.fields[i].name : i \in DOMAIN ev.fields }
                          /\ \A i \in DOMAIN ev.fields :
                               rec.fields[ev.fields[i].name] =
                                   [ variant |-> SpecVariant[ev.fields[i].ty],
                                     val |-> ev.fields[i].val ] ]_vars

\* C6 witness: a record on the channel at INFO while its target is configured
\* at DEBUG, with request_id 7 as I64 and driver_connection_id 7 as U64.
C6_Witness ==
    \E k \in 1 .. Len(sent) :
        /\ sent[k].level = "INFO"
        /\ sent[k].target \in DOMAIN levels
        /\ levels[sent[k].target] = "DEBUG"
        /\ sent[k].fields["request_id"] = [ variant |-> "I64", val |-> 7 ]
        /\ sent[k].fields["driver_connection_id"] = [ variant |-> "U64", val |-> 7 ]
        /\ Cardinality(DOMAIN sent[k].fields) = 8

\* ---------------------------------------------------------------------------
\* The broadcast channel, as the subscribers see it
\* ---------------------------------------------------------------------------

\* C7: the records a subscriber receives appear in the order of the
\* successful sends, and that order is one total order: the sends only ever
\* append to one sequence, which the buffer's slots agree with, whichever
\* producers are emitting.
C7_ReceiveOrderIsSendOrder ==
    /\ [] ( /\ Len(sent) = ch_pos
            /\ \A i \in DOMAIN ch_buffer :
                 ch_buffer[i].pos >= 0 =>
                     /\ ch_buffer[i].pos < ch_pos
                     /\ ch_buffer[i].val = sent[ch_buffer[i].pos + 1]
            /\ \A s \in Subs : \A i, j \in 1 .. Len(received[s]) :
                 /\ received[s][i].pos \in 0 .. (ch_pos - 1)
                 /\ received[s][i].rec = sent[received[s][i].pos + 1]
                 /\ i < j => received[s][i].pos < received[s][j].pos )
    /\ [][ \/ sent' = sent
           \/ /\ Len(sent') = Len(sent) + 1
              /\ SubSeq(sent', 1, Len(sent)) = sent ]_vars

\* C7 witness: a subscriber has received two records while both producers
\* are between enabled() and event().
C7_Witness ==
    /\ \E s \in Subs : Len(received[s]) >= 2
    /\ \A p \in Producers : prod[p].pc = "enabled"

\* C8: a subscriber that has not lagged has received exactly the records sent
\* from its subscribe() on, up to its cursor: none sent before, none missing,
\* none twice; so two subscribers have the same record at any position both
\* have reached.
C8_ExactlyTheRecordsSinceSubscribe ==
    /\ \A s \in Subs :
         /\ \A i \in 1 .. Len(received[s]) :
              /\ received[s][i].pos = sub[s].start + i - 1
              /\ received[s][i].rec = sent[sub[s].start + i]
         /\ sub[s].pc # "panicked" => sub[s].next = sub[s].start + Len(received[s])
    /\ \A s1, s2 \in Subs :
         \A i \in 1 .. Len(received[s1]) : \A j \in 1 .. Len(received[s2]) :
              received[s1][i].pos = received[s2][j].pos
                  => received[s1][i].rec = received[s2][j].rec

\* C8 witness: two subscribers that subscribed at different instants, the
\* later one after a record was sent, have both received a record of the same
\* position.
C8_Witness ==
    \E s1, s2 \in Subs :
        /\ sub[s1].start < sub[s2].start
        /\ \E i \in 1 .. Len(received[s1]) : \E j \in 1 .. Len(received[s2]) :
             received[s1][i].pos = received[s2][j].pos

\* The receiver of s has lagged: the record at its cursor was sent and the
\* buffer no longer holds it.
Lagging(s) ==
    /\ sub[s].next < ch_pos
    /\ \A i \in DOMAIN ch_buffer : ch_buffer[i].pos # sub[s].next

\* The positions from the cursor of s on whose records the buffer no longer
\* holds.
MissedPositions(s) ==
    { q \in sub[s].next .. (ch_pos - 1) : \A i \in DOMAIN ch_buffer : ch_buffer[i].pos # q }

\* C9: when the receiver reports a lag, wait_for_event panics with the number
\* of skipped records; the call never returns normally after it (the timeout
\* may end the call before the receiver is asked), a panicked subscriber
\* stays so, and no subscriber that has not panicked has skipped a record.
C9_LagPanics ==
    /\ [][ \A s \in Subs :
             /\ (sub[s].pc = "waiting" /\ Lagging(s) /\ sub'[s] # sub[s]) =>
                   \/ /\ sub'[s].pc = "panicked"
                      /\ sub'[s].missed = Cardinality(MissedPositions(s))
                      /\ received'[s] = received[s]
                   \/ /\ sub'[s].pc = "idle"
                      /\ sub'[s].next = sub[s].next
                      /\ received'[s] = received[s]
             /\ sub[s].pc = "panicked" =>
                   (sub'[s] = sub[s] /\ received'[s] = received[s]) ]_vars
    /\ [] ( \A s \in Subs :
              sub[s].pc # "panicked" => sub[s].next - sub[s].start = Len(received[s]) )

\* C9 witness: a call of collect_events has panicked with a count of skipped
\* records.
C9_Witness ==
    \E s \in Subs :
        /\ sub[s].pc = "panicked"
        /\ sub[s].collecting
        /\ sub[s].missed >= 1

IsPowerOfTwo(k) == \E e \in 0 .. k : 2 ^ e = k

\* The smallest power of two that is at least the requested capacity.
EffectiveCapacity ==
    CHOOSE k \in 1 .. (2 * ChannelCapacity) :
        /\ IsPowerOfTwo(k)
        /\ k >= ChannelCapacity
        /\ \A j \in 1 .. (k - 1) : ~(IsPowerOfTwo(j) /\ j >= ChannelCapacity)

\* A recv of s that was ready: the cursor moved, or the call panicked.
RecvStep(s) ==
    /\ sub[s].pc = "waiting"
    /\ sub'[s].next # sub[s].next \/ sub'[s].pc = "panicked"

\* C10 as stated: the channel buffers at most the requested capacity: a
\* receiver at most that many records behind receives its next record, and
\* one more than that many behind gets a lag whose count is the number of
\* records it missed.
C10_Original ==
    [][ \A s \in Subs :
          RecvStep(s) =>
              LET behind == ch_pos - sub[s].next
              IN  IF behind <= ChannelCapacity
                  THEN /\ sub'[s].pc # "panicked"
                       /\ received'[s] =
                            Append(received[s], [ pos |-> sub[s].next,
                                                  rec |-> sent[sub[s].next + 1] ])
                  ELSE /\ sub'[s].pc = "panicked"
                       /\ sub'[s].missed = behind - ChannelCapacity ]_vars

\* C10, amended: the channel buffers the requested capacity rounded up to a
\* power of two: a receiver at most that many records behind receives its
\* next record, and one further behind gets a lag whose count is the number
\* of records it missed, those the buffer no longer holds.
C10_LagBeyondRoundedCapacity ==
    [][ \A s \in Subs :
          RecvStep(s) =>
              LET behind == ch_pos - sub[s].next
              IN  IF behind <= EffectiveCapacity
                  THEN /\ sub'[s].pc # "panicked"
                       /\ received'[s] =
                            Append(received[s], [ pos |-> sub[s].next,
                                                  rec |-> sent[sub[s].next + 1] ])
                  ELSE /\ sub'[s].pc = "panicked"
                       /\ sub'[s].missed = behind - EffectiveCapacity
                       /\ sub'[s].missed = Cardinality(MissedPositions(s)) ]_vars

\* C10 witness: a subscriber that subscribed to the empty channel and fell
\* one record further behind than the buffer holds was told it missed one.
C10_Witness ==
    \E s \in Subs :
        /\ sub[s].pc = "panicked"
        /\ sub[s].start = 0
        /\ received[s] = <<>>
        /\ sub[s].missed = 1
        /\ ch_pos = EffectiveCapacity + 1

\* ---------------------------------------------------------------------------
\* The calls of a subscriber
\* ---------------------------------------------------------------------------

\* The record sent at a position of the channel.
SentAt(q) == sent[q + 1]

\* A call of wait_for_event of s is under way (not inside collect_events).
InWaitForEvent(s) == sub[s].pc = "waiting" /\ ~sub[s].collecting

\* No record at the positions from a to b - 1 satisfies the filter f.
NoMatchBetween(f, a, b) == \A q \in a .. (b - 1) : ~filter_matches(f, SentAt(q))

\* What a call of wait_for_event returns: an event is the record at
\* the subscriber's cursor, which satisfies the filter, after records that
\* all fail it: the first match, in channel order, since the call began. A
\* call that returns absence does so when its timeout has elapsed, having
\* received no record that satisfies the filter. The time that has elapsed
\* is counted from the start of the call: a receive that does not match
\* leaves it as it is.
WaitReturnsFirstMatch ==
    [][ \A s \in Subs :
          /\ (InWaitForEvent(s) /\ sub'[s].pc = "idle") =>
                \/ /\ sub[s].next < Len(sent)
                   /\ sub'[s].ret = [ kind |-> "option", val |-> Some(SentAt(sub[s].next)) ]
                   /\ filter_matches(sub[s].filter, SentAt(sub[s].next))
                   /\ NoMatchBetween(sub[s].filter, sub[s].call_start, sub[s].next)
                   /\ sub'[s].next = sub[s].next + 1
                \/ /\ sub'[s].ret = [ kind |-> "option", val |-> None ]
                   /\ sub[s].elapsed >= sub[s].timeout
                   /\ NoMatchBetween(sub[s].filter, sub[s].call_start, sub[s].next)
                   /\ sub'[s].next = sub[s].next
          /\ (InWaitForEvent(s) /\ sub'[s].pc = "waiting") =>
                /\ sub'[s].elapsed >= sub[s].elapsed
                /\ sub'[s].elapsed <= sub[s].elapsed + 1
                /\ sub'[s].timeout = sub[s].timeout
                /\ sub'[s].filter = sub[s].filter
                /\ sub'[s].call_start = sub[s].call_start
                /\ sub'[s].next >= sub[s].next ]_vars

\* A call of wait_for_event does not wait for ever: it returns, or panics on
\* a lag.
WaitReturns == \A s \in Subs : InWaitForEvent(s) ~> (sub[s].pc # "waiting")

\* C11: wait_for_event returns the first record, in channel order, that
\* satisfies the filter among those it receives before its timeout elapses,
\* and absence when the timeout elapses without one; the timeout runs over
\* the whole call, and the call ends.
C11_WaitForEvent == WaitReturnsFirstMatch /\ WaitReturns

\* C11 witness: a call with a timeout that has partly elapsed has returned a
\* record after it had received one that did not satisfy its filter.
C11_Witness ==
    \E s \in Subs :
        /\ sub[s].pc = "idle"
        /\ sub[s].ret.kind = "option"
        /\ sub[s].ret.val # None
        /\ sub[s].call_start < sub[s].next - 1
        /\ sub[s].timeout > 0
        /\ sub[s].elapsed > 0
        /\ sub[s].elapsed < sub[s].timeout

\* A call of collect_events of s is under way.
InCollectEvents(s) == sub[s].pc = "waiting" /\ sub[s].collecting

\* The records at the positions from a to b - 1 that satisfy the filter f, in
\* the order of their positions.
RECURSIVE MatchesBetween(_, _, _)
MatchesBetween(f, a, b) ==
    IF a >= b THEN <<>>
    ELSE (IF filter_matches(f, SentAt(a)) THEN << SentAt(a) >> ELSE <<>>)
             \o MatchesBetween(f, a + 1, b)

\* What a call of collect_events returns: the records it received that
\* satisfy the filter, in the order received, when a timeout has elapsed in
\* full since the call began or since its last match. A match is pushed and
\* starts the timeout again; another record changes neither.
CollectReturnsMatches ==
    [][ \A s \in Subs :
          /\ (InCollectEvents(s) /\ sub'[s].pc = "idle") =>
                /\ sub'[s].ret = [ kind |-> "vec",
                                   val |-> MatchesBetween(sub[s].filter, sub[s].call_start,
                                                          sub[s].next) ]
                /\ \A i \in DOMAIN sub'[s].ret.val :
                      filter_matches(sub[s].filter, sub'[s].ret.val[i])
                /\ sub[s].elapsed >= sub[s].timeout
                /\ sub'[s].next = sub[s].next
          /\ (InCollectEvents(s) /\ sub'[s].pc = "waiting") =>
                /\ sub'[s].collecting
                /\ sub'[s].timeout = sub[s].timeout
                /\ sub'[s].filter = sub[s].filter
                /\ sub'[s].call_start = sub[s].call_start
                /\ IF sub'[s].next = sub[s].next
                   THEN /\ sub'[s].events = sub[s].events
                        /\ sub'[s].elapsed \in { sub[s].elapsed, sub[s].elapsed + 1 }
                   ELSE IF filter_matches(sub[s].filter, SentAt(sub[s].next))
                   THEN /\ sub'[s].events = Append(sub[s].events, SentAt(sub[s].next))
                        /\ sub'[s].elapsed = 0
                        /\ sub'[s].next = sub[s].next + 1
                   ELSE /\ sub'[s].events = sub[s].events
                        /\ sub'[s].elapsed = sub[s].elapsed
                        /\ sub'[s].next = sub[s].next + 1 ]_vars

\* A call of collect_events does not go on for ever while records stop
\* coming: it returns, or panics on a lag.
CollectReturns == \A s \in Subs : InCollectEvents(s) ~> (sub[s].pc # "waiting")

\* C12: collect_events returns, in receive order, exactly the records its
\* calls of wait_for_event returned, each of which satisfies the filter, and
\* it stops at the first of these calls that runs for a full timeout without
\* a match.
C12_CollectEvents == CollectReturnsMatches /\ CollectReturns

\* C12 witness: a call with a timeout greater than zero has returned two
\* records, having also received one that did not satisfy its filter.
C12_Witness ==
    \E s \in Subs :
        /\ sub[s].pc = "idle"
        /\ sub[s].ret.kind = "vec"
        /\ Len(sub[s].ret.val) = 2
        /\ sub[s].next - sub[s].call_start >= 3
        /\ sub[s].timeout > 0

\* The last call of s was a wait_for_event that returned absence.
ReturnedAbsence(s) ==
    sub[s].pc = "idle" /\ sub[s].ret = [ kind |-> "option", val |-> None ]

\* The number of receivers the channel should count: the subscribers that
\* exist and have not panicked.
LiveSubs == { s \in Subs : sub[s].pc \notin { "none", "panicked" } }

\* C13: a wait_for_event that returns absence on its timeout leaves the
\* receiver as it was: the cursor and the channel's count of receivers are
\* unchanged, so no record is skipped; the subscriber can call again, the
\* call begins at that cursor, and every receive delivers the record at the
\* cursor, the oldest one sent that the subscriber has not received, whether
\* it was sent during the call that timed out or after it.
C13_ReceiverValidAfterTimeout ==
    /\ [][ \A s \in Subs :
              /\ (InWaitForEvent(s) /\ ReturnedAbsence(s)') =>
                    /\ sub'[s].next = sub[s].next
                    /\ received'[s] = received[s]
                    /\ ch_rx_cnt' = ch_rx_cnt
                    /\ ch_buffer' = ch_buffer
              /\ (ReturnedAbsence(s) /\ sub'[s] # sub[s]) =>
                    /\ sub'[s].pc = "waiting"
                    /\ sub'[s].next = sub[s].next
                    /\ sub'[s].call_start = sub[s].next
              /\ (sub[s].pc = "waiting" /\ received'[s] # received[s]) =>
                    /\ sub[s].next < Len(sent)
                    /\ received'[s] = Append(received[s],
                                             [ pos |-> sub[s].next, rec |-> SentAt(sub[s].next) ])
                    /\ sub'[s].next = sub[s].next + 1 ]_vars
    /\ [] ( /\ ch_rx_cnt = Cardinality(LiveSubs)
            /\ \A s \in LiveSubs : sub[s].next = sub[s].start + Len(received[s]) )

\* C13 witness: a call has returned absence after its timeout while a record
\* sent during it was not yet received: the record is at the subscriber's
\* cursor, in the buffer, for the next call.
C13_Witness ==
    \E s \in Subs :
        /\ ReturnedAbsence(s)
        /\ sub[s].timeout > 0
        /\ sub[s].call_start < sub[s].next
        /\ sub[s].next < ch_pos
        /\ ch_buffer[sub[s].next % BufferLen].pos = sub[s].next

\* ---------------------------------------------------------------------------
\* The level map and its guards
\* ---------------------------------------------------------------------------

\* C14: set_levels replaces the level map: right after the call the map is
\* the argument, whatever the map was before; a target of the previous map
\* that the argument lacks is enabled at no level.
C14_SetLevelsReplaces ==
    [][ guards' = guards + 1 =>
          LET arg == set_levels_call'.new_levels
          IN  /\ set_levels_call'.before = levels
              /\ levels' = arg
              /\ DOMAIN levels' = DOMAIN arg
              /\ \A t \in Targets :
                    (t \in DOMAIN levels /\ t \notin DOMAIN arg) =>
                        \A l \in Levels : ~enabled(levels', t, l) ]_vars

\* C14 witness: set_levels has replaced a map that had a target its argument
\* lacks (no guard was released since: the map is not empty), and the map
\* is the argument.
C14_Witness ==
    /\ levels = set_levels_call.new_levels
    /\ levels # EmptyLevels
    /\ \E t \in DOMAIN set_levels_call.before : t \notin DOMAIN levels

\* The release of a guard clears the map, and with the empty map every event
\* the facade asks about is rejected.
ReleaseClearsLevels ==
    [][ /\ guards' < guards => levels' = EmptyLevels
        /\ \A t \in Targets : \A l \in Levels : ~enabled(EmptyLevels, t, l)
        /\ levels = EmptyLevels =>
              \A p \in Producers :
                  (prod[p].pc = "idle" /\ prod'[p].pc # "idle") => prod'[p].pc = "rejected" ]_vars

\* C15 as stated: the release of the guard clears the map, enabled returns
\* false for everything until the next set_levels, and while the map is
\* empty no new record is placed on the channel.
C15_Original ==
    /\ ReleaseClearsLevels
    /\ [][ levels = EmptyLevels => sent' = sent ]_vars

\* C15, amended: the release of the guard clears the map and enabled returns
\* false for everything until the next set_levels; a record placed on the
\* channel while the map is empty is of an event that enabled had let
\* through before the release, one for each producer at most.
C15_ReleaseStopsNewEvents ==
    /\ ReleaseClearsLevels
    /\ [][ (levels = EmptyLevels /\ sent' # sent) =>
              \E p \in Producers :
                  /\ prod[p].pc = "enabled"
                  /\ enabled(set_levels_call.new_levels, prod[p].ev.target, prod[p].ev.level)
                  /\ prod'[p].pc = "idle"
                  /\ sent' = Append(sent, test_event(prod[p].ev)) ]_vars

\* C15 witness: after the release of the guard an event that the released
\* map let through has been rejected.
C15_Witness ==
    /\ levels = EmptyLevels
    /\ guards = 0
    /\ set_levels_call.new_levels # EmptyLevels
    /\ \E p \in Producers :
          /\ prod[p].pc = "rejected"
          /\ enabled(set_levels_call.new_levels, prod[p].ev.target, prod[p].ev.level)

\* C16: at any time at most one levels guard of a hub is alive; set_levels
\* yields no second guard while an earlier one has not been released.
C16_AtMostOneGuard ==
    guards <= 1

\* ---------------------------------------------------------------------------
\* The level map of a test file
\* ---------------------------------------------------------------------------
EntitiesOf(l) == { l[i] : i \in DOMAIN l }

\* The entities the specification has the traversal visit: those of the
\* top-level list and those of the operations named "createEntities".
VisitedEntities(test_file) ==
    (IF test_file.create_entities = None
     THEN {}
     ELSE EntitiesOf(test_file.create_entities[1]))
    \cup UNION { UNION { IF test_file.tests[i].operations[j].name = "createEntities"
                         THEN EntitiesOf(test_file.tests[i].operations[j].entities)
                         ELSE {} :
                         j \in DOMAIN test_file.tests[i].operations } :
                 i \in DOMAIN test_file.tests }

\* The entities of the operations with other names.
UnvisitedEntities(test_file) ==
    UNION { UNION { IF test_file.tests[i].operations[j].name # "createEntities"
                    THEN EntitiesOf(test_file.tests[i].operations[j].entities)
                    ELSE {} :
                    j \in DOMAIN test_file.tests[i].operations } :
            i \in DOMAIN test_file.tests }

\* The level maps of the client entities among a set of entities.
ObservedLevels(entities) ==
    { e.observe_log_messages[1] :
      e \in { x \in entities : x.kind = "Client" /\ x.observe_log_messages # None } }

\* The levels the visited clients declare for a component.
DeclaredLevels(test_file, t) ==
    { m[t] : m \in { x \in ObservedLevels(VisitedEntities(test_file)) : t \in DOMAIN x } }

\* C18: max_verbosity_levels_from_test_file maps every component to the
\* maximum, under Error < Warn < Info < Debug < Trace, of the levels that the
\* client entities of the file declare for it: the merged level is one of
\* the declared levels and none of them is more verbose.
C18_MergedLevelIsMax ==
    f_pc = "done" =>
        \A t \in Targets :
            LET D == DeclaredLevels(f_file, t)
            IN  D # {} =>
                  /\ t \in DOMAIN f_out
                  /\ f_out[t] \in D
                  /\ \A l \in D : Rank(l) <= Rank(f_out[t])

\* C18 witness: two visited clients declare different levels for a component
\* and the more verbose one is visited first.
C18_Witness ==
    /\ f_pc = "done"
    /\ f_file.create_entities # None
    /\ \E l \in DeclaredLevels(f_file, COMMAND_TRACING_EVENT_TARGET) :
          /\ Rank(l) > Rank("DEBUG")
          /\ f_out[COMMAND_TRACING_EVENT_TARGET] = l
    /\ \E e \in EntitiesOf(f_file.create_entities[1]) :
          /\ e.kind = "Client"
          /\ e.observe_log_messages # None
          /\ COMMAND_TRACING_EVENT_TARGET \in DOMAIN e.observe_log_messages[1]
          /\ e.observe_log_messages[1][COMMAND_TRACING_EVENT_TARGET] = "DEBUG"

\* C19: the keys of the merged map are the components of the level maps of
\* the client entities in the top-level list and in the operations named
\* "createEntities"; the other entities and operations add no key, and
\* without such a client the map is empty.
C19_KeysAreVisitedComponents ==
    f_pc = "done" =>
        /\ DOMAIN f_out = UNION { DOMAIN m : m \in ObservedLevels(VisitedEntities(f_file)) }
        /\ ObservedLevels(VisitedEntities(f_file)) = {} => f_out = EmptyLevels

\* C19 witness: a client of an operation with another name declares a
\* component that no visited client declares, a visited client of the
\* top-level list declares one, and the merged map has only the latter.
C19_Witness ==
    /\ f_pc = "done"
    /\ f_file.create_entities # None
    /\ ObservedLevels(EntitiesOf(f_file.create_entities[1])) # {}
    /\ f_out # EmptyLevels
    /\ \E m \in ObservedLevels(UnvisitedEntities(f_file)) :
          \E t \in DOMAIN m : t \notin DOMAIN f_out

\* ---------------------------------------------------------------------------
\* The record of a failed command
\* ---------------------------------------------------------------------------

\* The fields of a command-failed record other than failure, with the values
\* the event gives them; the optional ones are absent when the event has none.
ExpectedFailedFields(event) ==
    { << "command_name", Some(event.command_name) >>,
      << "request_id", Some(event.request_id) >>,
      << "driver_connection_id", Some(event.connection.id) >>,
      << "server_connection_id", event.connection.server_id >>,
      << "server_host", Some(event.connection.address.host) >>,
      << "server_port", event.connection.address.port >>,
      << "service_id", IF event.service_id = None THEN None
                       ELSE Some(oid_tracing_representation(event.service_id[1])) >>,
      << "duration_ms", Some(event.duration_ms) >>,
      << "message", Some("Command failed") >>,
      << "client_id", IF e_test_build THEN e_cmd.client_id ELSE None >> }

\* A field of a record as an option: absent, or its value.
FieldOption(ev, name) == IF HasField(ev, name) THEN Some(FieldValue(ev, name)) ELSE None

\* C20: the record of a failed command whose error is of kind Redacted has
\* no failure field, the record of any other failed command has the error's
\* display as its failure, and in both cases the other fields are there with
\* the values of the event and nothing else is.
C20_RedactedFailureOmitted ==
    (e_pc = "emitted" /\ e_in.kind = "command_failed") =>
        LET event == e_in.event
        IN  /\ e_out.target = COMMAND_TRACING_EVENT_TARGET
            /\ e_out.level = "DEBUG"
            /\ FieldOption(e_out, "failure") =
                  IF event.failure.kind = "Redacted" THEN None ELSE Some(event.failure.display)
            /\ \A x \in ExpectedFailedFields(event) : FieldOption(e_out, x[1]) = x[2]
            /\ \A k \in DOMAIN e_out.fields :
                  /\ e_out.fields[k].name \in
                        { "failure" } \cup { x[1] : x \in ExpectedFailedFields(event) }
                  /\ \A j \in DOMAIN e_out.fields :
                        e_out.fields[j].name = e_out.fields[k].name => j = k

\* C20 witness: a failed command with a redacted error was published without
\* failure and with its duration and its service id.
C20_Witness ==
    /\ e_pc = "emitted"
    /\ e_in.kind = "command_failed"
    /\ e_in.event.failure.kind = "Redacted"
    /\ ~HasField(e_out, "failure")
    /\ FieldOption(e_out, "duration_ms") = Some(2)
    /\ HasField(e_out, "service_id")

\* ---------------------------------------------------------------------------
\* The hub as the default sink
\* ---------------------------------------------------------------------------

\* C17: the installation of the hub as the default sink is scoped: the
\* release of its guard makes the sink that was the default before the
\* installation the default again, the hub is the default exactly while the
\* guard is alive, and an event emitted while the hub is not the default is
\* not taken by the hub: with no event of the time before in flight, nothing
\* is sent to its subscribers.
C17_DefaultSinkIsScoped ==
    /\ [][ (d_guard # None /\ d_guard' = None) => d_default' = d_guard[1] ]_vars
    /\ [][ d_guard' # d_guard => (d_default' = "hub" <=> d_guard' # None) ]_vars
    /\ [][ d_default # "hub" =>
              /\ \A p \in Producers : prod[p].pc = "idle" => prod'[p].pc = "idle"
              /\ (\A p \in Producers : prod[p].pc = "idle") => sent' = sent ]_vars

\* C17 witness: the hub was installed and its subscriber received an event;
\* the guard was released, the prior sink is the default again, and an event
\* emitted since then went to that sink and not to the subscriber.
C17_Witness ==
    /\ d_guard = None
    /\ d_default \in PriorSinks
    /\ sent # <<>>
    /\ Len(received["s1"]) = Len(sent)
    /\ d_elsewhere > 0
    /\ prod["p1"].pc = "idle"

\* ---------------------------------------------------------------------------
\* The fields of the command records
\* ---------------------------------------------------------------------------

\* The record the hub builds of the event published.
PublishedRecord == test_event(e_out)

\* The fields every command record has, and those it has when the event has
\* a value for them (client_id in test builds only).
CommandCommonFields ==
    { "command_name", "request_id", "driver_connection_id", "server_host", "message" }

CommandOptionalFields ==
    { "server_connection_id", "server_port", "service_id" }
        \cup (IF e_test_build THEN { "client_id" } ELSE {})

\* The fields a command record must have and may have, given the fields of
\* its kind besides the common ones and the variant of duration_ms.
CommandRecordHas(own, optional, duration_variant) ==
    LET fields == PublishedRecord.fields
    IN  /\ CommandCommonFields \cup own \subseteq DOMAIN fields
        /\ DOMAIN fields \subseteq CommandCommonFields \cup own \cup CommandOptionalFields \cup optional
        /\ "duration_ms" \in DOMAIN fields => fields["duration_ms"].variant = duration_variant

\* C21 as stated: the succeeded record has the fields of the started record
\* with reply for command, and duration_ms as a u64; the failed record has
\* failure for reply; nothing else appears but the client_id of test builds.
C21_Original ==
    e_pc = "emitted" =>
        CASE e_in.kind = "command_started" ->
                 CommandRecordHas({ "command", "database_name" }, {}, "U64")
          [] e_in.kind = "command_succeeded" ->
                 CommandRecordHas({ "reply", "database_name", "duration_ms" }, {}, "U64")
          [] e_in.kind = "command_failed" ->
                 CommandRecordHas({ "database_name", "duration_ms" }, { "failure" }, "U64")

\* C21, amended: the started record has command and database_name; the
\* succeeded record has reply and duration_ms and no database_name; the
\* failed record has duration_ms, failure unless the error is redacted, and
\* no database_name; duration_ms is recorded as a u128; nothing else appears
\* but the common fields, the optional ones and the client_id of test builds.
C21_CommandRecordFields ==
    e_pc = "emitted" =>
        CASE e_in.kind = "command_started" ->
                 CommandRecordHas({ "command", "database_name" }, {}, "U128")
          [] e_in.kind = "command_succeeded" ->
                 CommandRecordHas({ "reply", "duration_ms" }, {}, "U128")
          [] e_in.kind = "command_failed" ->
                 CommandRecordHas({ "duration_ms" }, { "failure" }, "U128")

\* C21 witness: a succeeded command was published with its reply, with its
\* duration as a u128 and without the name of the database.
C21_Witness ==
    /\ e_pc = "emitted"
    /\ e_in.kind = "command_succeeded"
    /\ "reply" \in DOMAIN PublishedRecord.fields
    /\ "database_name" \notin DOMAIN PublishedRecord.fields
    /\ PublishedRecord.fields["duration_ms"].variant = "U128"

\* ---------------------------------------------------------------------------
\* The targets and the level of the records
\* ---------------------------------------------------------------------------

\* The kinds of event each emitter handles.
CommandKinds == { "command_started", "command_succeeded", "command_failed" }

ConnectionKinds ==
    { "pool_created", "pool_ready", "pool_cleared", "pool_closed", "connection_created",
      "connection_ready", "connection_closed", "connection_checkout_started",
      "connection_checkout_failed", "connection_checked_out", "connection_checked_in" }

SdamKinds ==
    { "server_description_changed", "server_opening", "server_closed",
      "topology_description_changed", "topology_opening", "topology_closed",
      "server_heartbeat_started", "server_heartbeat_succeeded", "server_heartbeat_failed" }

\* The record's target is the one given for its emitter, and its level is
\* Debug.
TargetsAre(command, connection, sdam) ==
    e_pc = "emitted" =>
        /\ e_in.kind \in CommandKinds \cup ConnectionKinds \cup SdamKinds
        /\ PublishedRecord.level = "DEBUG"
        /\ PublishedRecord.target =
              CASE e_in.kind \in CommandKinds -> command
                [] e_in.kind \in ConnectionKinds -> connection
                [] e_in.kind \in SdamKinds -> sdam

\* C22 as stated: the records of the command emitter carry db.command, those
\* of the connection emitter db.connection, those of the SDAM emitter
\* db.sdam, and every record is published at Debug.
C22_Original == TargetsAre("db.command", "db.connection", "db.sdam")

\* C22, amended: the records of the command emitter carry mongodb::command,
\* those of the connection emitter mongodb::connection, those of the SDAM
\* emitter mongodb::sdam, and every record is published at Debug.
C22_TargetsAndLevel == TargetsAre("mongodb::command", "mongodb::connection", "mongodb::sdam")

\* C22 witness: the connection emitter has published a record at Debug under
\* its target.
C22_Witness ==
    /\ e_pc = "emitted"
    /\ e_in.kind = "connection_ready"
    /\ PublishedRecord.target = "mongodb::connection"
    /\ PublishedRecord.level = "DEBUG"

\* ---------------------------------------------------------------------------
\* Descriptions that cannot be serialized
\* ---------------------------------------------------------------------------

\* What the specification has a description field hold.
ExpectedDescription(kind, description) ==
    IF description.to_bson.ok
    THEN document_tracing_representation(description.to_bson.doc)
    ELSE "Failed to serialize " \o kind \o ": " \o description.to_bson.err

\* The fields of a description-changed record besides the two descriptions.
ExpectedDescriptionChangedFields(event) ==
    { << "topology_id", Some(oid_tracing_representation(event.topology_id)) >>,
      << "client_id", IF e_test_build THEN e_sdam.client_id ELSE None >> }
    \cup (IF e_in.kind = "server_description_changed"
          THEN { << "server_host", Some(event.address.host) >>,
                 << "server_port", event.address.port >> }
          ELSE { << "server_host", None >>, << "server_port", None >> })

\* C23: when a server or topology description cannot be serialized, its
\* field holds "Failed to serialize <kind>: <error>" and the record is
\* published all the same with every other field as the event gives it; the
\* handler can be called for every such event and returns.
C23_SerializationFallback ==
    /\ e_pc = "ready" =>
          /\ \A event \in ServerDescriptionChangedEvents : ENABLED ServerDescriptionChanged(event)
          /\ \A event \in TopologyDescriptionChangedEvents :
                ENABLED TopologyDescriptionChanged(event)
    /\ (e_pc = "emitted"
            /\ e_in.kind \in { "server_description_changed", "topology_description_changed" }) =>
          LET event == e_in.event
              kind == IF e_in.kind = "server_description_changed"
                      THEN "server description" ELSE "topology description"
          IN  /\ PublishedRecord.target = SDAM_TRACING_EVENT_TARGET
              /\ FieldOption(e_out, "previous_description") =
                    Some(ExpectedDescription(kind, event.previous_description))
              /\ FieldOption(e_out, "new_description") =
                    Some(ExpectedDescription(kind, event.new_description))
              /\ \A x \in ExpectedDescriptionChangedFields(event) :
                    FieldOption(e_out, x[1]) = x[2]

\* C23 witness: a server description changed, the previous description could
\* not be serialized and the new one could; the record holds the fallback
\* for the one and the rendering for the other.
C23_Witness ==
    /\ e_pc = "emitted"
    /\ e_in.kind = "server_description_changed"
    /\ ~e_in.event.previous_description.to_bson.ok
    /\ e_in.event.new_description.to_bson.ok
    /\ FieldValue(e_out, "previous_description") =
          "Failed to serialize server description: invalid value"
    /\ FieldValue(e_out, "new_description") =
          document_tracing_representation(e_in.event.new_description.to_bson.doc)
    /\ HasField(e_out, "server_port")

\* ---------------------------------------------------------------------------
\* An event on a hub without subscribers
\* ---------------------------------------------------------------------------

\* Every record a subscriber has received is a record the channel stored, at
\* a position not before the subscriber's subscription.
ReceivedWereStored ==
    \A s \in Subs : \A i \in 1 .. Len(received[s]) :
        /\ received[s][i].pos >= sub[s].start
        /\ received[s][i].pos < Len(sent)
        /\ received[s][i].rec = sent[received[s][i].pos + 1]

\* C24: event() on a hub with no subscriber returns, leaves the level map
\* and the channel as they were, and stores no record; what a subscriber
\* created later receives are stored records only, so never this one.
C24_EventWithoutSubscriberIsLost ==
    /\ [][ \A p \in Producers :
              (prod[p].pc = "enabled" /\ prod'[p].pc # prod[p].pc /\ ch_rx_cnt = 0) =>
                  /\ prod'[p] = IdleProducer
                  /\ UNCHANGED << levels, guards, ch_pos, ch_rx_cnt, ch_buffer, sub, sent,
                                  received >> ]_vars
    /\ [](\A p \in Producers : (prod[p].pc = "enabled" /\ ch_pos < MaxSends) => ENABLED emit_event(p))
    /\ []ReceivedWereStored

\* C24 witness: the "Command started" event of p1 was handed to the hub
\* before anyone subscribed; a subscriber created later has received a
\* "Command succeeded" record, and no "Command started" record was stored.
C24_Witness ==
    /\ prod["p1"].pc = "idle"
    /\ \A i \in 1 .. Len(sent) : sent[i].fields["message"].val # "Command started"
    /\ \E s \in Subs :
          /\ sub[s].pc = "idle"
          /\ received[s] # <<>>
          /\ sub[s].ret.kind = "option"
          /\ sub[s].ret.val # None

\* ---------------------------------------------------------------------------
\* The client_id field
\* ---------------------------------------------------------------------------

\* The emitter that handled the event.
EmitterOf(kind) ==
    CASE kind \in CommandKinds -> e_cmd
      [] kind \in ConnectionKinds -> e_conn
      [] kind \in SdamKinds -> e_sdam

\* C25: in a test build a record has a client_id field exactly when its
\* emitter was constructed with a client identifier, and the field is that
\* identifier; in another build no record has the field.
C25_ClientIdInTestBuildsOnly ==
    e_pc = "emitted" =>
        LET id == EmitterOf(e_in.kind).client_id
        IN  /\ ("client_id" \in DOMAIN PublishedRecord.fields) <=> (e_test_build /\ id # None)
            /\ TracingEvent_client_id(PublishedRecord) =
                  [ panicked |-> FALSE, val |-> IF e_test_build THEN id ELSE None ]

\* C25 witness: in a test build the connection emitter of a client with an
\* identifier has published a record that carries it.
C25_Witness ==
    /\ e_pc = "emitted"
    /\ e_test_build
    /\ e_in.kind = "connection_checked_out"
    /\ e_conn.client_id = Some("client0")
    /\ TracingEvent_client_id(PublishedRecord).val = Some("client0")

\* ---------------------------------------------------------------------------
\* The reasons of the connection records
\* ---------------------------------------------------------------------------

\* The prose the specification fixes for each reason.
SpecClosedReason ==
    [ Stale |-> "Connection became stale because the pool was cleared",
      Idle |-> "Connection has been available but unused for longer than the configured max idle time",
      Error |-> "An error occurred while using the connection",
      Dropped |-> "Connection was dropped during an operation",
      PoolClosed |-> "Connection pool was closed" ]

SpecCheckoutFailedReason ==
    [ Timeout |-> "Wait queue timeout elapsed without a connection becoming available",
      ConnectionError |-> "An error occurred while trying to establish a connection" ]

\* C26: the reason of a Connection closed record and of a Connection
\* checkout failed record is the prose fixed for the reason of the event;
\* every reason of the two sets has a rendering, and two reasons of a set
\* have different ones.
C26_ReasonProse ==
    /\ DOMAIN SpecClosedReason = ConnectionClosedReasons
    /\ DOMAIN SpecCheckoutFailedReason = ConnectionCheckoutFailedReasons
    /\ \A r1, r2 \in ConnectionClosedReasons :
          closed_reason_tracing_representation(r1) = closed_reason_tracing_representation(r2)
              => r1 = r2
    /\ \A r1, r2 \in ConnectionCheckoutFailedReasons :
          checkout_failed_reason_tracing_representation(r1)
              = checkout_failed_reason_tracing_representation(r2) => r1 = r2
    /\ (e_pc = "emitted" /\ e_in.kind = "connection_closed") =>
          FieldOption(e_out, "reason") = Some(SpecClosedReason[e_in.event.reason])
    /\ (e_pc = "emitted" /\ e_in.kind = "connection_checkout_failed") =>
          FieldOption(e_out, "reason") = Some(SpecCheckoutFailedReason[e_in.event.reason])
    /\ (e_pc = "emitted" /\ e_in.kind \in ConnectionKinds
            /\ e_in.kind \notin { "connection_closed", "connection_checkout_failed" }) =>
          ~HasField(e_out, "reason")

\* C26 witness: a connection closed for having been idle was published with
\* the prose of that reason.
C26_Witness ==
    /\ e_pc = "emitted"
    /\ e_in.kind = "connection_closed"
    /\ e_in.event.reason = "Idle"
    /\ PublishedRecord.fields["reason"] =
          [ variant |-> "String",
            val |-> "Connection has been available but unused for longer than the configured max idle time" ]

\* ---------------------------------------------------------------------------
\* The hub before the first set_levels
\* ---------------------------------------------------------------------------

HandlerReturn ==
    /\ e_pc = "emitted"
    /\ e_pc' = "ready"
    /\ e_in' = NoInput
    /\ e_out' = NoOutput
    /\ UNCHANGED << emitterVars, hubVars, truncVars, fileVars, sinkVars, spanVars, poolVars, selectVars, senderVars >>

LifetimeNext ==
    \/ HandlerNext
    \/ HandlerReturn

\* The emitters of one client handling any number of events.
SpecLifetime == EmitInit /\ [][LifetimeNext]_vars

\* The maximum lengths a client may configure.
ConfiguredLengths == { None } \cup { Some(n) : n \in EmitBudgets }

\* C28: an emitter constructed with no maximum has the budget
\* DEFAULT_MAX_DOCUMENT_LENGTH_BYTES, which is 1000, one constructed with
\* Some(n) has n, the client identifier is the one given, and no step of the
\* emitter's lifetime changes its budget or identifier.
C28_BudgetFixedAtConstruction ==
    /\ [](/\ DEFAULT_MAX_DOCUMENT_LENGTH_BYTES = 1000
          /\ \A id \in { None, Some("client0") } :
               /\ CommandTracingEventEmitter_new(None, id)
                    = [ max_document_length_bytes |-> 1000, client_id |-> id ]
               /\ \A n \in EmitBudgets :
                    CommandTracingEventEmitter_new(Some(n), id)
                      = [ max_document_length_bytes |-> n, client_id |-> id ]
          /\ \E max \in ConfiguredLengths :
               e_cmd = CommandTracingEventEmitter_new(max, e_cmd.client_id))
    /\ [][ /\ e_cmd' = e_cmd
           /\ e_conn' = e_conn
           /\ e_sdam' = e_sdam
           /\ e_test_build' = e_test_build ]_vars

\* C28 witness: an emitter constructed with a maximum of its own has
\* published a command record and kept its budget.
C28_Witness ==
    /\ e_pc = "emitted"
    /\ e_in.kind = "command_started"
    /\ e_cmd.max_document_length_bytes = MaxEmitBudget
    /\ e_cmd.client_id = Some("client0")

\* ---------------------------------------------------------------------------
\* Cancellation of wait_for_event
\* ---------------------------------------------------------------------------

\* The records s has taken from its receiver since its call began.
TakenInCall(s) ==
    { i \in 1 .. Len(received[s]) : received[s][i].pos >= sub[s].call_start }

\* The call of s ends in this step without a record: its timeout fires or
\* its caller drops it.
EndsWithoutRecord(s) ==
    /\ sub[s].pc = "waiting"
    /\ sub'[s].pc = "idle"
    /\ received'[s] = received[s]

\* C29: wait_for_event is cancellation-safe. While a call waits, which is
\* when its timeout can fire and when it can be dropped, every record it has
\* taken from the receiver was a non-match discarded whole (or, inside
\* collect_events, a match already pushed); a step that takes a record
\* either returns it, being a match, or discards it and changes nothing else;
\* and a call that ends on its timeout or by being dropped leaves the cursor,
\* the buffer and the count of receivers as they were, so that every record
\* not taken is there for the next receive.
C29_CancellationSafe ==
    /\ [] \A s \in Subs :
            sub[s].pc = "waiting" =>
                \A i \in TakenInCall(s) :
                    filter_matches(sub[s].filter, received[s][i].rec) =>
                        /\ sub[s].collecting
                        /\ \E j \in 1 .. Len(sub[s].events) :
                              sub[s].events[j] = received[s][i].rec
    /\ [][ \A s \in Subs :
              /\ (received'[s] # received[s]) =>
                    LET taken == received'[s][Len(received'[s])]
                    IN  /\ sub[s].pc = "waiting"
                        /\ received'[s] = Append(received[s], taken)
                        /\ taken.pos = sub[s].next
                        /\ sub'[s].next = sub[s].next + 1
                        /\ IF filter_matches(sub[s].filter, taken.rec)
                           THEN IF sub[s].collecting
                                THEN sub'[s].events = Append(sub[s].events, taken.rec)
                                ELSE /\ sub'[s].pc = "idle"
                                     /\ sub'[s].ret = [ kind |-> "option",
                                                        val |-> Some(taken.rec) ]
                           ELSE sub'[s] = [ sub[s] EXCEPT !.next = @ + 1 ]
              /\ EndsWithoutRecord(s) =>
                    /\ sub'[s].next = sub[s].next
                    /\ ch_buffer' = ch_buffer
                    /\ ch_pos' = ch_pos
                    /\ ch_rx_cnt' = ch_rx_cnt
                    /\ recv_ref(sub[s].next)' = recv_ref(sub[s].next) ]_vars

\* C29 witness: a call was dropped by its caller after it had discarded a
\* non-match, and a record sent during it is still at the cursor, in the
\* buffer, for the next receive.
C29_Witness ==
    /\ sub["s1"].pc = "idle"
    /\ sub["s1"].ret = NoReturn
    /\ sub["s1"].call_start < sub["s1"].next
    /\ sub["s1"].next < ch_pos
    /\ recv_ref(sub["s1"].next).kind = "ok"
    /\ filter_matches("Command started", recv_ref(sub["s1"].next).value)

\* ---------------------------------------------------------------------------
\* The span operations of the hub
\* ---------------------------------------------------------------------------

SpanOps == { "new_span", "record", "record_follows_from", "enter", "exit" }

\* C30: the span operations are inert: new_span returns the identity 1 for
\* every span, and a call of new_span, record, record_follows_from, enter or
\* exit leaves the level map, the guards, the channel, the producers, the
\* subscribers and the records sent and received as they were.
C30_SpanOperationsInert ==
    /\ [](/\ \A span \in SpanAttributes : new_span(span) = 1
          /\ span_call.op = "new_span" => span_call.ret = Some(1)
          /\ span_call.op \in SpanOps \ { "new_span" } => span_call.ret = None)
    /\ [][ span_call' # span_call =>
              /\ span_call'.op \in SpanOps
              /\ levels' = levels
              /\ guards' = guards
              /\ ch_pos' = ch_pos
              /\ ch_rx_cnt' = ch_rx_cnt
              /\ ch_buffer' = ch_buffer
              /\ sent' = sent
              /\ received' = received
              /\ prod' = prod
              /\ sub' = sub ]_vars

\* C30 witness: new_span was called for the second kind of span, while an
\* event had passed enabled and a record sent earlier waited to be received.
C30_Witness ==
    /\ span_call.op = "new_span"
    /\ span_call.args = << "handshake" >>
    /\ span_call.ret = Some(1)
    /\ prod["p1"].pc = "enabled"
    /\ sub["s1"].next < ch_pos

\* ---------------------------------------------------------------------------
\* The enabled check and the send under level changes
\* ---------------------------------------------------------------------------

\* The map m lets an event of target t and level l through.
LetsThrough(m, t, l) == t \in DOMAIN m /\ level_le(l, m[t])

\* C31 as stated: every record placed on the channel is of an event that
\* the level map of the moment of the send lets through.
C31_Original ==
    [][ sent' # sent =>
           LET rec == sent'[Len(sent')]
           IN  LetsThrough(levels, rec.target, rec.level) ]_vars

\* C31, amended: every record placed on the channel is of an event that the
\* level map of the moment of its enabled check let through; the send is a
\* later step that does not look at the map, which a set_levels or the
\* release of a guard may have changed in between.
C31_SentWasEnabledWhenChecked ==
    [][ /\ \A p \in Producers :
              (prod[p].pc = "idle" /\ prod'[p].pc # "idle") =>
                  /\ levels' = levels
                  /\ sent' = sent
                  /\ prod'[p].pc = IF LetsThrough(levels, prod'[p].ev.target, prod'[p].ev.level)
                                   THEN "enabled" ELSE "rejected"
        /\ sent' # sent =>
              \E p \in Producers :
                  /\ prod[p].pc = "enabled"
                  /\ prod'[p].pc = "idle"
                  /\ sent' = Append(sent, test_event(prod[p].ev))
                  /\ levels' = levels ]_vars

\* C31 witness: an event has passed the enabled check, the guard has been
\* released since, and the event is about to be sent to a subscriber under a
\* map that lets nothing through.
C31_Witness ==
    /\ levels = EmptyLevels
    /\ guards = 0
    /\ ch_rx_cnt > 0
    /\ Len(sent) > 0
    /\ \E p \in Producers :
          /\ prod[p].pc = "enabled"
          /\ ~LetsThrough(levels, prod[p].ev.target, prod[p].ev.level)

\* ---------------------------------------------------------------------------
\* The release of one guard of two
\* ---------------------------------------------------------------------------

\* C32: the release of any levels guard empties the level map, whichever
\* call of set_levels installed its contents and however many guards stay
\* alive: after set_levels(a), set_levels(b) and the release of one guard the
\* map is empty while a guard is still held, and every event is rejected.
C32_AnyGuardClearsLevels ==
    [][ guards' < guards =>
           /\ guards' = guards - 1
           /\ levels' = EmptyLevels
           /\ \A t \in Targets, l \in Levels : ~enabled(levels', t, l) ]_vars

\* C32 witness: set_levels was called on a map another call had filled, so
\* with a guard alive, and one of the two guards has been released: the map
\* is empty, the contents of the second call are gone and one guard is held.
C32_Witness ==
    /\ guards = 1
    /\ levels = EmptyLevels
    /\ set_levels_call.before # EmptyLevels
    /\ set_levels_call.new_levels # EmptyLevels
    /\ set_levels_call.new_levels # set_levels_call.before

\* ---------------------------------------------------------------------------
\* ConnectionPool::check_out
\* ---------------------------------------------------------------------------

\* The tasks that check connections out of one pool.
Callers == { "t1", "t2", "t3" }

\* The address of the pool.
PoolAddress == [ host |-> "localhost", port |-> Some(27017) ]

\* The connections the pool hands out.
PoolConnections == { [ id |-> i, address |-> PoolAddress ] : i \in { 1, 2 } }

\* Result<Connection>
Ok(c) == [ ok |-> TRUE, val |-> c ]
Err(e) == [ ok |-> FALSE, val |-> e ]

NoCall == [ pc |-> "idle", response |-> "", emitted |-> <<>>, ret |-> <<>> ]

\* ConnectionPool::emit_event(generate_event): the event is handed, with the
\* two handlers of the pool, to emit_cmap_event. The events a call has
\* emitted are kept in their order.
emit_event_of(call, event) == [ call EXCEPT !.emitted = Append(@, event) ]

\* Mutant: a checkout that fails because the pool was cleared emits nothing.
check_out_end_silent_when_cleared(call, response, conn) ==
    [ (IF conn.ok
       THEN emit_event_of(call, [ kind |-> "ConnectionCheckedOut",
                                  address |-> conn.val.address,
                                  connection_id |-> conn.val.id ])
       ELSE IF response = "PoolCleared" THEN call
       ELSE emit_event_of(call, [ kind |-> "ConnectionCheckoutFailed",
                                  address |-> PoolAddress,
                                  reason |-> "ConnectionError" ]))
      EXCEPT !.pc = "returned", !.response = response, !.ret = conn ]

\* check_out from `match conn` on: ConnectionCheckedOut with the connection's
\* checked_out_event for Ok, ConnectionCheckoutFailed with the reason
\* ConnectionError for Err, and conn is returned.
check_out_end(call, response, conn) ==
    [ (IF conn.ok
       THEN emit_event_of(call, [ kind |-> "ConnectionCheckedOut",
                                  address |-> conn.val.address,
                                  connection_id |-> conn.val.id ])
       ELSE emit_event_of(call, [ kind |-> "ConnectionCheckoutFailed",
                                  address |-> PoolAddress,
                                  reason |-> "ConnectionError" ]))
      EXCEPT !.pc = "returned", !.response = response, !.ret = conn ]

\* A call of check_out up to its first suspension: ConnectionCheckoutStarted
\* is emitted and the request is made.
check_out_call(c) ==
    /\ co[c].pc \in { "idle", "returned" }
    /\ co' = [ co EXCEPT ![c] =
                 [ emit_event_of(NoCall, [ kind |-> "ConnectionCheckoutStarted",
                                           address |-> PoolAddress ])
                   EXCEPT !.pc = "requesting" ] ]
    /\ UNCHANGED << hubVars, truncVars, emitVars, fileVars, sinkVars, spanVars, selectVars, senderVars >>

\* self.connection_requester.request().await resolves with a pooled
\* connection or with the error the pool was cleared for: the call goes on to
\* its end without suspending.
check_out_response(c, response, conn) ==
    /\ co[c].pc = "requesting"
    /\ \/ response = "Pooled" /\ conn.ok
       \/ response = "PoolCleared" /\ conn = Err("pool_cleared_error")
    /\ co' = [ co EXCEPT ![c] = check_out_end(co[c], response, conn) ]
    /\ UNCHANGED << hubVars, truncVars, emitVars, fileVars, sinkVars, spanVars, selectVars, senderVars >>

\* The request resolves with a task that establishes a connection: the call
\* awaits the task.
check_out_establishing(c) ==
    /\ co[c].pc = "requesting"
    /\ co' = [ co EXCEPT ![c].pc = "establishing", ![c].response = "Establishing" ]
    /\ UNCHANGED << hubVars, truncVars, emitVars, fileVars, sinkVars, spanVars, selectVars, senderVars >>

\* task.await resolves with a connection or with an error.
check_out_established(c, conn) ==
    /\ co[c].pc = "establishing"
    /\ co' = [ co EXCEPT ![c] = check_out_end(co[c], "Establishing", conn) ]
    /\ UNCHANGED << hubVars, truncVars, emitVars, fileVars, sinkVars, spanVars, selectVars, senderVars >>

\* A pool with no call of check_out under way.
PoolInit ==
    /\ co = [ c \in Callers |-> NoCall ]
    /\ SelectOff
    /\ SenderOn
    /\ HubInit
    /\ TruncOff
    /\ EmitOff
    /\ FileOff
    /\ SinkOff
    /\ SpanOff

PoolNext ==
    \/ \E c \in Callers : check_out_call(c)
    \/ \E c \in Callers, conn \in { Ok(x) : x \in PoolConnections } :
          check_out_response(c, "Pooled", conn)
    \/ \E c \in Callers : check_out_response(c, "PoolCleared", Err("pool_cleared_error"))
    \/ \E c \in Callers : check_out_establishing(c)
    \/ \E c \in Callers, conn \in { Ok(x) : x \in PoolConnections } :
          check_out_established(c, conn)
    \/ \E c \in Callers : check_out_established(c, Err("establish_error"))

\* Three tasks checking connections out of one pool, again and again.
SpecPool == PoolInit /\ [][PoolNext]_vars

\* The kinds of the events a call has emitted, in order.
EmittedKinds(call) == [ i \in 1 .. Len(call.emitted) |-> call.emitted[i].kind ]

\* C33: a call of check_out emits ConnectionCheckoutStarted first and
\* nothing more while its request or the establishment is pending; a call
\* that has returned has emitted one more event and no other:
\* ConnectionCheckedOut, for the connection returned, when it returned Ok, and
\* ConnectionCheckoutFailed when it returned Err, the pool having been
\* cleared included.
C33_CheckoutEvents ==
    \A c \in Callers :
        /\ co[c].pc = "idle" => co[c].emitted = <<>>
        /\ co[c].pc \in { "requesting", "establishing" } =>
              EmittedKinds(co[c]) = << "ConnectionCheckoutStarted" >>
        /\ co[c].pc = "returned" =>
              /\ co[c].ret.ok =>
                    /\ EmittedKinds(co[c]) =
                          << "ConnectionCheckoutStarted", "ConnectionCheckedOut" >>
                    /\ co[c].emitted[2].connection_id = co[c].ret.val.id
              /\ ~co[c].ret.ok =>
                    EmittedKinds(co[c]) =
                        << "ConnectionCheckoutStarted", "ConnectionCheckoutFailed" >>
              /\ co[c].response = "PoolCleared" => ~co[c].ret.ok

\* C33 witness: one call has failed on a cleared pool, one has returned a
\* connection it had to wait for, and one is waiting for its request.
C33_Witness ==
    \E c1, c2, c3 \in Callers :
        /\ co[c1].pc = "returned" /\ co[c1].response = "PoolCleared"
        /\ co[c2].pc = "returned" /\ co[c2].response = "Establishing" /\ co[c2].ret.ok
        /\ co[c3].pc = "requesting"

\* ---------------------------------------------------------------------------
\* Client::select_server
\* ---------------------------------------------------------------------------

\* const DEFAULT_SERVER_SELECTION_TIMEOUT: Duration::from_secs(30)
DEFAULT_SERVER_SELECTION_TIMEOUT == 30

\* The values of options.server_selection_timeout, in seconds.
SelectionTimeouts == { None, Some(0), Some(2) }

\* What one attempt_to_select_server gives on the state observed: a server,
\* no server, or an error that `?` returns.
AttemptResults == { "server", "none", "error" }

NoSelection ==
    [ pc |-> "idle", timeout |-> 0, now |-> 0, guard_elapsed |-> None, elapsed |-> None,
      wait |-> None, attempted |-> FALSE, requested |-> FALSE, ret |-> "" ]

\* Duration - Duration: checked_sub(..).expect("overflow when subtracting
\* durations").
duration_sub(a, b) == IF b <= a THEN [ panicked |-> FALSE, val |-> a - b ]
                               ELSE [ panicked |-> TRUE, val |-> 0 ]

\* select_server up to the loop: start_time = Instant::now(), and the
\* timeout of the options or the default.
select_server_call(server_selection_timeout) ==
    /\ ss.pc = "idle"
    /\ ss' = [ NoSelection EXCEPT
                 !.pc = "loop",
                 !.timeout = IF server_selection_timeout = None
                             THEN DEFAULT_SERVER_SELECTION_TIMEOUT
                             ELSE server_selection_timeout[1] ]
    /\ UNCHANGED << hubVars, truncVars, emitVars, fileVars, sinkVars, spanVars, poolVars, senderVars >>

\* One turn of the loop up to the guard: the latest state is observed and a
\* selection attempted; a server or an error is returned; with no server an
\* immediate check is requested and start_time.elapsed() is read for the
\* guard `start_time.elapsed() < timeout`, which ends the call with the
\* ServerSelection error when it fails.
select_server_attempt(result) ==
    /\ ss.pc = "loop"
    /\ ss' = IF result = "server"
             THEN [ ss EXCEPT !.pc = "returned", !.attempted = TRUE, !.ret = "Ok(server)" ]
             ELSE IF result = "error"
             THEN [ ss EXCEPT !.pc = "returned", !.attempted = TRUE, !.ret = "Err(attempt)" ]
             ELSE IF ss.now < ss.timeout
             THEN [ ss EXCEPT !.pc = "guard_passed", !.attempted = TRUE, !.requested = TRUE,
                              !.guard_elapsed = Some(ss.now), !.elapsed = None,
                              !.wait = None ]
             ELSE [ ss EXCEPT !.pc = "returned", !.attempted = TRUE, !.requested = TRUE,
                              !.guard_elapsed = Some(ss.now), !.elapsed = None,
                              !.wait = None, !.ret = "Err(ServerSelection)" ]
    /\ UNCHANGED << hubVars, truncVars, emitVars, fileVars, sinkVars, spanVars, poolVars, senderVars >>

\* The right operand of &&: start_time.elapsed() is read again, subtracted
\* from the timeout, and wait_for_update is called with the difference.
select_server_subtract ==
    /\ ss.pc = "guard_passed"
    /\ LET d == duration_sub(ss.timeout, ss.now)
       IN  ss' = IF d.panicked
                 THEN [ ss EXCEPT !.pc = "panicked", !.elapsed = Some(ss.now) ]
                 ELSE [ ss EXCEPT !.pc = "waiting", !.elapsed = Some(ss.now),
                                  !.wait = Some(ss.now + d.val) ]
    /\ UNCHANGED << hubVars, truncVars, emitVars, fileVars, sinkVars, spanVars, poolVars, senderVars >>

\* wait_for_update(..).await resolves: with true when the topology changed,
\* and the loop goes round; with false, at the latest when the wait has
\* lasted the duration given, and the ServerSelection error is returned.
select_server_wait_for_update(change_occurred) ==
    /\ ss.pc = "waiting"
    /\ ss.now <= ss.wait[1]
    /\ ss' = IF change_occurred
             THEN [ ss EXCEPT !.pc = "loop" ]
             ELSE [ ss EXCEPT !.pc = "returned", !.ret = "Err(ServerSelection)" ]
    /\ UNCHANGED << hubVars, truncVars, emitVars, fileVars, sinkVars, spanVars, poolVars, senderVars >>

\* A second passes; a wait does not outlast its duration.
select_server_tick ==
    /\ ss.pc \in { "loop", "guard_passed", "waiting" }
    /\ ss.now < MaxClock
    /\ ss.pc = "waiting" => ss.now < ss.wait[1]
    /\ ss' = [ ss EXCEPT !.now = @ + 1 ]
    /\ UNCHANGED << hubVars, truncVars, emitVars, fileVars, sinkVars, spanVars, poolVars, senderVars >>

SelectInit ==
    /\ ss = NoSelection
    /\ SenderOn
    /\ PoolOff
    /\ HubInit
    /\ TruncOff
    /\ EmitOff
    /\ FileOff
    /\ SinkOff
    /\ SpanOff

SelectNext ==
    \/ \E t \in SelectionTimeouts : select_server_call(t)
    \/ \E r \in AttemptResults : select_server_attempt(r)
    \/ select_server_subtract
    \/ \E b \in BOOLEAN : select_server_wait_for_update(b)
    \/ select_server_tick

\* One call of select_server while time passes.
SpecSelect == SelectInit /\ [][SelectNext]_vars

\* The call goes on when it can, every wait for an update resolves, and time
\* does not stop.
SpecSelectFair ==
    /\ SpecSelect
    /\ WF_vars(\E r \in AttemptResults : select_server_attempt(r))
    /\ WF_vars(select_server_subtract)
    /\ WF_vars(\E b \in BOOLEAN : select_server_wait_for_update(b))
    /\ WF_vars(select_server_tick)

\* A call of select_server is under way.
Selecting == ss.pc \in { "loop", "guard_passed", "waiting" }

\* C34: a call of select_server terminates by returning: a server when an
\* attempt on the state observed succeeds, otherwise an error; and a
\* ServerSelection error is returned only after an attempt and a request for
\* an immediate check, once the guard has found the timeout reached or a wait
\* for an update has ended without a change.
C34_SelectServerReturns ==
    /\ [](Selecting => <>(ss.pc = "returned"))
    /\ [](ss.pc # "panicked")
    /\ [](ss.ret = "Err(ServerSelection)" =>
            /\ ss.attempted
            /\ ss.requested
            /\ \/ ss.guard_elapsed[1] >= ss.timeout
               \/ ss.wait # None)

\* C35: the elapsed time that is subtracted from the timeout never exceeds
\* the timeout, and the subtraction does not panic.
C35_NoUnderflow ==
    /\ ss.pc # "panicked"
    /\ ss.elapsed # None => ss.elapsed[1] <= ss.timeout

\* The guard itself holds for the elapsed time it read.
GuardReadBelowTimeout ==
    ss.pc \in { "guard_passed", "waiting", "panicked" } => ss.guard_elapsed[1] < ss.timeout

\* Every call of select_server ends, by returning or by the panic of the
\* subtraction.
SelectServerEnds == [](Selecting => <>(ss.pc \in { "returned", "panicked" }))

\* ---------------------------------------------------------------------------
\* Absence and the closed channel
\* ---------------------------------------------------------------------------

\* C36: while a subscriber exists the hub exists, and with it the sender of
\* the channel, so that no receive of the subscriber reports the channel
\* closed; a wait_for_event that returns absence does so when its timeout
\* has elapsed, and for no other reason.
C36_AbsenceOnlyOnTimeout ==
    /\ [] \A s \in Subs :
            sub[s].pc \notin { "none", "panicked" } =>
                /\ ch_tx_cnt > 0
                /\ recv_ref(sub[s].next).kind # "closed"
    /\ [][ \A s \in Subs :
              (InWaitForEvent(s) /\ ReturnedAbsence(s)') =>
                  /\ sub[s].elapsed >= sub[s].timeout
                  /\ sub'[s].next = sub[s].next ]_vars

\* C36 witness: with no record in the channel for it, a call with a timeout
\* greater than zero has returned absence when the timeout had elapsed, after
\* an earlier subscriber of the hub had been dropped.
C36_Witness ==
    /\ ReturnedAbsence("s1")
    /\ sub["s1"].timeout = MaxTimeout
    /\ sub["s1"].elapsed = MaxTimeout
    /\ sub["s1"].next = ch_pos
    /\ sub["s1"].start > 0
    /\ ch_tx_cnt = 1

\* ---------------------------------------------------------------------------
\* Records skipped by a filter
\* ---------------------------------------------------------------------------

\* s takes a record from its receiver in this step and hands it on: as the
\* return value of wait_for_event, or to the vector of collect_events.
ReturnsRecord(s) ==
    /\ sub[s].pc = "waiting"
    /\ \/ ~sub[s].collecting /\ sub'[s].pc = "idle" /\ sub'[s].ret.kind = "option"
                             /\ sub'[s].ret.val # None
       \/ sub[s].collecting /\ sub'[s].pc = "waiting"
                            /\ Len(sub'[s].events) > Len(sub[s].events)

\* C37: a record that a call received and its filter rejected is gone for
\* the subscriber: the receiver hands out every position once, in rising
\* order, everything received lies behind the cursor, the cursor never goes
\* back, and a record that a call returns is the one at the cursor of that
\* moment, so never one that this call or an earlier one has skipped.
C37_SkippedRecordsAreGone ==
    /\ [] \A s \in Subs :
            /\ \A i, j \in 1 .. Len(received[s]) :
                  i < j => received[s][i].pos < received[s][j].pos
            /\ \A i \in 1 .. Len(received[s]) : received[s][i].pos < sub[s].next
    /\ [][ \A s \in Subs :
              /\ sub'[s].next >= sub[s].next
              /\ ReturnsRecord(s) =>
                    LET rec == IF sub[s].collecting
                               THEN sub'[s].events[Len(sub'[s].events)]
                               ELSE sub'[s].ret.val[1]
                    IN  /\ rec = SentAt(sub[s].next)
                        /\ received'[s] =
                              Append(received[s], [ pos |-> sub[s].next, rec |-> rec ])
                        /\ \A i \in 1 .. Len(received[s]) :
                              received[s][i].pos # sub[s].next ]_vars

\* C37 witness: inside collect_events a first call of wait_for_event skipped
\* a record its filter rejected and returned the next one, and a later call
\* has returned the record after that.
C37_Witness ==
    /\ InCollectEvents("s1")
    /\ sub["s1"].filter = "Command started"
    /\ Len(sub["s1"].events) = 2
    /\ sub["s1"].next = sub["s1"].call_start + 3
    /\ ~filter_matches(sub["s1"].filter, SentAt(sub["s1"].call_start))

\* ---------------------------------------------------------------------------
\* The timeout windows of collect_events
\* ---------------------------------------------------------------------------

\* C38: every match that collect_events receives starts a new timeout
\* window, a record its filter rejects does not, and the call returns its
\* vector only when a full timeout has passed since the last match (or since
\* the call began); as the producers stop sending, the call comes to its
\* end: it returns, or panics if its receiver lagged.
C38_CollectEventsWindows ==
    /\ [][ \A s \in Subs :
              InCollectEvents(s) =>
                  /\ Len(sub'[s].events) > Len(sub[s].events) =>
                        /\ sub'[s].elapsed = 0
                        /\ sub'[s].pc = "waiting"
                  /\ (sub'[s].pc = "waiting" /\ sub'[s].events = sub[s].events) =>
                        sub'[s].elapsed >= sub[s].elapsed
                  /\ sub'[s].pc = "idle" =>
                        /\ sub[s].elapsed >= sub[s].timeout
                        /\ sub'[s].ret = [ kind |-> "vec", val |-> sub[s].events ]
                        /\ sub'[s].next = sub[s].next ]_vars
    /\ \A s \in Subs :
          InCollectEvents(s) ~>
              \/ sub[s].pc = "idle" /\ sub[s].ret.kind = "vec"
              \/ sub[s].pc = "panicked"

\* C38 witness: a call of collect_events with a timeout greater than zero
\* has returned the one match it received, a full timeout after it, having
\* taken no other record.
C38_Witness ==
    /\ sub["s1"].pc = "idle"
    /\ sub["s1"].ret.kind = "vec"
    /\ Len(sub["s1"].ret.val) = 1
    /\ sub["s1"].timeout = MaxTimeout
    /\ sub["s1"].elapsed = MaxTimeout
    /\ sub["s1"].next = sub["s1"].call_start + 1

\* ---------------------------------------------------------------------------
\* The order of the merge
\* ---------------------------------------------------------------------------

Reverse(l) == [ i \in 1 .. Len(l) |-> l[Len(l) + 1 - i] ]

\* The file with its tests, their operations and every list of entities in
\* the opposite order.
ReversedFile(test_file) ==
    [ create_entities |-> IF test_file.create_entities = None THEN None
                          ELSE Some(Reverse(test_file.create_entities[1])),
      tests |-> Reverse([ i \in DOMAIN test_file.tests |->
                  [ operations |->
                      Reverse([ j \in DOMAIN test_file.tests[i].operations |->
                          [ test_file.tests[i].operations[j]
                            EXCEPT !.entities = Reverse(@) ] ]) ] ]) ]

\* The file with every entity listed twice.
DoubledFile(test_file) ==
    [ create_entities |-> IF test_file.create_entities = None THEN None
                          ELSE Some(test_file.create_entities[1]
                                        \o test_file.create_entities[1]),
      tests |-> [ i \in DOMAIN test_file.tests |->
                  [ operations |->
                      [ j \in DOMAIN test_file.tests[i].operations |->
                          [ test_file.tests[i].operations[j]
                            EXCEPT !.entities = @ \o @ ] ] ] ] ]

\* The level maps the client entities declare.
DeclaredMaps ==
    { e.observe_log_messages[1] :
        e \in { x \in FileEntities : x.kind = "Client" /\ x.observe_log_messages # None } }

\* The merge of a level map into another, as the traversal does it for a
\* client entity that declares the map.
MergeMaps(m1, m2) == update_merged_levels(m1, Client(Some(m2)))

\* C39: the merged level map does not depend on the order of the visit, and
\* a client entity visited twice counts once: the file read backwards and
\* the file with every entity doubled give the map of the file, and on the
\* map of the file the merge of entities is commutative and idempotent and
\* the merge of maps associative.
C39_MergeOrderIrrelevant ==
    f_pc = "done" =>
        /\ max_verbosity_levels_from_test_file(ReversedFile(f_file)) = f_out
        /\ max_verbosity_levels_from_test_file(DoubledFile(f_file)) = f_out
        /\ \A e1, e2 \in FileEntities :
              /\ update_merged_levels(update_merged_levels(f_out, e1), e2)
                    = update_merged_levels(update_merged_levels(f_out, e2), e1)
              /\ update_merged_levels(update_merged_levels(f_out, e1), e1)
                    = update_merged_levels(f_out, e1)
        /\ \A m1, m2 \in DeclaredMaps :
              /\ MergeMaps(MergeMaps(f_out, m1), m2) = MergeMaps(f_out, MergeMaps(m1, m2))
              /\ MergeMaps(m1, m2) = MergeMaps(m2, m1)
              /\ MergeMaps(m1, m1) = m1

\* C39 witness: the top-level list holds two clients that declare different
\* levels for the command component, the less verbose one first, and the map
\* has the more verbose level.
C39_Witness ==
    /\ f_pc = "done"
    /\ f_file.create_entities # None
    /\ Len(f_file.create_entities[1]) = 2
    /\ f_file.create_entities[1][1] =
          Client(Some([ c \in { COMMAND_TRACING_EVENT_TARGET } |-> "DEBUG" ]))
    /\ f_file.create_entities[1][2] =
          Client(Some([ c \in { COMMAND_TRACING_EVENT_TARGET } |-> "TRACE" ]))
    /\ f_out = [ c \in { COMMAND_TRACING_EVENT_TARGET } |-> "TRACE" ]

\* ---------------------------------------------------------------------------
\* The length of the boundary search
\* ---------------------------------------------------------------------------

\* The number of times the while loop of truncate_on_char_boundary runs
\* truncate_index += 1 when it starts at from.
RECURSIVE LoopIncrements(_, _)
LoopIncrements(s, from) ==
    IF is_char_boundary(s, from) THEN 0 ELSE 1 + LoopIncrements(s, from + 1)

\* C40: when n < len(s), the boundary search of truncate_on_char_boundary
\* stops after at most 3 increments, the truncation index it stops at is not
\* past len(s), and the result is at most 3 bytes longer than the budget n.
C40_BoundarySearchBounded ==
    (t_pc = "done" /\ t_new_len < Len(t_orig)) =>
        /\ LoopIncrements(t_orig, t_new_len) <= 3
        /\ t_new_len + LoopIncrements(t_orig, t_new_len) <= Len(t_orig)
        /\ Len(t_s) = t_new_len + LoopIncrements(t_orig, t_new_len)
        /\ Len(t_s) - t_new_len <= 3

\* C40 witness: the budget falls just after the lead byte of a four-byte
\* character that is not the last one, and the search takes all 3 increments.
C40_Witness ==
    /\ t_pc = "done"
    /\ t_new_len < Len(t_orig)
    /\ t_new_len > 0
    /\ CharWidth(t_orig[t_new_len]) = 4
    /\ Len(t_s) = t_new_len + 3
    /\ Len(t_s) < Len(t_orig)

====
